---- MODULE Spec2Model ----
(***************************************************************************)
(* Reliable file transfer over UDP (Assignment 4).                         *)
(*   part1: ReliableServer / ReliableClient  - fixed sender window, byte   *)
(*          offsets as sequence numbers, cumulative ack + SACK blocks.     *)
(*   part2: CongestionControlServer / receive_file - TCP-Reno style cwnd,  *)
(*          packet indices as sequence numbers, cumulative ack only.       *)
(* One session of one variant is modelled: the variable variant selects    *)
(* which pair of endpoints runs.  Both endpoints are single-threaded       *)
(* loops; an action is the code an endpoint runs between two blocking      *)
(* socket receives.                                                        *)
(*                                                                         *)
(* Abstractions.                                                           *)
(*  - Byte strings cut from the file are not stored byte by byte: a        *)
(*    payload is the slice [lo, hi) of the file it was cut from, or the    *)
(*    3-byte EOF marker.  The only content test of the code, data ==       *)
(*    EOF_MARKER, is decided by IsEofMarker (a slice equals the marker     *)
(*    when it is the 3-byte tail of a file that ends in the bytes "EOF").  *)
(*  - Headers and acknowledgments are real byte sequences.                 *)
(*  - Wall-clock time: send timestamps are kept as ranks (their order is   *)
(*    all the code's comparisons between them need); whether an age        *)
(*    exceeds rto and the value of an RTT sample are nondeterministic.     *)
(*  - Floats: times are integers in microseconds, cwnd is a fixed-point    *)
(*    number (whole part + thousandths); divisions truncate.               *)
(***************************************************************************)
EXTENDS Integers, Sequences, FiniteSets, Bags, TLC

VARIABLES
    variant,            \* "p1" (part1) or "p2" (part2)
    file_size,          \* len(file_data)
    eof_tail,           \* file_data ends with the bytes b"EOF"
    sws,                \* part1 sender window size in bytes (argv)
    ordered,            \* the transport delivers in order (and loses nothing)
    events,             \* estimator / controller events applied (SpecCwnd, SpecRto)
    call, ret,          \* a function applied on its own: arguments, result (SpecCodec)
    \* ---- network
    s2c,                \* datagrams in flight server -> client
    c2s,                \* datagrams in flight client -> server
    faults,             \* channel faults and timer events used so far
    \* ---- server
    spc,                \* server position: "wait", "acks", "eof", "done"
    send_base, next_seq_num,
    packets,            \* in-flight map: seq -> [ts, orig]
    current_time,       \* rank of the loop iteration's time.time()
    dup_ack_count,      \* part1: a number; part2: map acked seq -> count
    acks_processed,
    estimated_rtt, dev_rtt, rto,
    cwnd, ssthresh, in_slow_start,
    total_packets_sent, retransmissions,
    fast_retransmits,   \* fast-retransmit branches taken so far
    eof_sent,           \* EOF datagrams transmitted so far
    \* ---- client
    cpc,                \* client position: "init", "await", "recv", "done", "failed"
    attempt,            \* connection requests sent
    expected_seq,       \* part2: expected_seq_num
    received_data,      \* part2: out_of_order_packets
    eof_seq,            \* part1: None or the EOF's seq_num
    eof_seen,           \* part2: the in-order EOF branch broke the loop
    packets_this_round, no_data_count,
    packets_received,   \* part1: valid datagrams received by receive_file
    sink                \* payloads written to the output file, in order

vars == <<variant, file_size, eof_tail, sws, ordered, events, call, ret,
          s2c, c2s, faults,
          spc, send_base, next_seq_num, packets, current_time, dup_ack_count,
          acks_processed, estimated_rtt, dev_rtt, rto, cwnd, ssthresh,
          in_slow_start, total_packets_sent, retransmissions,
          fast_retransmits, eof_sent,
          cpc, attempt, expected_seq, received_data, eof_seq, eof_seen,
          packets_this_round, no_data_count, packets_received, sink>>

netVars == <<s2c, c2s, faults>>
\* what no endpoint and no channel action changes
fixedVars == <<variant, file_size, eof_tail, sws, ordered, events, call, ret>>
serverVars == <<spc, send_base, next_seq_num, packets, current_time,
                dup_ack_count, acks_processed, estimated_rtt, dev_rtt, rto,
                cwnd, ssthresh, in_slow_start, total_packets_sent,
                retransmissions, fast_retransmits, eof_sent>>
clientVars == <<cpc, attempt, expected_seq, received_data, eof_seq, eof_seen,
                packets_this_round, no_data_count, packets_received, sink>>

\* Python's None, for values that are otherwise never negative
None == 0 - 1

(***************************************************************************)
(* Program constants.  Times are in microseconds.                          *)
(***************************************************************************)
MAX_PAYLOAD == 1200
HEADER_SIZE == 20
DATA_SIZE == MAX_PAYLOAD - HEADER_SIZE
MIN_RTO == 100000
MAX_RTO == 5000000
P1_INITIAL_RTO == 500000
P2_INITIAL_RTO == 300000
MAX_RETRIES == 5
P1_BURST_LIMIT == 60
P1_ACK_BATCH == 50
P2_ACK_BATCH == 10
P1_EOF_SENDS == 10
P2_EOF_SENDS == 20
P1_FINAL_ACKS == 5
P1_STALL_LIMIT == 500
P1_RECV_BATCH == 60
INITIAL_SSTHRESH == 32
CwndScale == 1000

(***************************************************************************)
(* Bounds of the model.                                                    *)
(***************************************************************************)
MaxChunks == 3      \* files have at most this many segments
MaxWin == 2         \* part1 windows of 1..MaxWin segments
MaxFaults == 2      \* losses + duplications + timer expiries (retries, idle acks, RTO)
MaxEvents == 16     \* congestion-controller events in a row (SpecCwnd)
MaxAcked == 2       \* segments one new ack acknowledges (SpecCwnd)
MaxSamples == 7     \* estimator events in a row (SpecRto)
MaxIdle == 3        \* idle rounds in a row of a part1 receiver that keeps running (SpecL)
MaxDupAcks == 6     \* extra copies of acknowledgments the transport delivers (SpecF)
MaxBuffered == 6    \* segments of the stream a receive buffer is filled from (SpecCodec)

(***************************************************************************)
(* Small helpers.                                                          *)
(***************************************************************************)
Min(a, b) == IF a <= b THEN a ELSE b
Max(a, b) == IF a >= b THEN a ELSE b
Abs(a) == IF a >= 0 THEN a ELSE 0 - a
SetMin(S) == CHOOSE x \in S : \A y \in S : x <= y
Zeros(n) == [j \in 1..n |-> 0]
\* the keys of a set of numbers in increasing order (sorted(d.keys()))
RECURSIVE SortedSeq(_)
SortedSeq(S) == IF S = {} THEN <<>>
                ELSE <<SetMin(S)>> \o SortedSeq(S \ {SetMin(S)})

(***************************************************************************)
(* Byte strings.                                                           *)
(***************************************************************************)
\* struct.pack('!I', n): 4 bytes, big-endian
PackU32(n) == <<(n \div 16777216) % 256, (n \div 65536) % 256,
                (n \div 256) % 256, n % 256>>
\* struct.unpack('!I', b[:4])[0]
UnpackU32(b) == b[1] * 16777216 + b[2] * 65536 + b[3] * 256 + b[4]

\* payloads: file_data[lo:hi], or the constant EOF_MARKER, or b""
FileSlice(lo, hi) == [k |-> "file", lo |-> lo, hi |-> hi]
EOF_MARKER == [k |-> "marker", lo |-> 0, hi |-> 3]
EmptyBytes == [k |-> "empty", lo |-> 0, hi |-> 0]
PayLen(d) == d.hi - d.lo
\* data == EOF_MARKER, for a payload of the session's file
IsEofMarker(d) ==
    \/ d.k = "marker"
    \/ d.k = "file" /\ eof_tail /\ d.hi = file_size /\ d.lo = file_size - 3

\* A server -> client datagram: header bytes followed by a payload.
Datagram(head, data) == [head |-> head, data |-> data]
DatagramLen(p) == Len(p.head) + PayLen(p.data)

create_packet_short(seq_num, data) == Datagram(PackU32(seq_num) \o Zeros(12), data)
\* create_packet (both servers)
create_packet(seq_num, data) == Datagram(PackU32(seq_num) \o Zeros(16), data)

\* ReliableClient.parse_packet: (None, None) on a short datagram
p1_parse_packet(packet) ==
    IF DatagramLen(packet) < HEADER_SIZE
    THEN [seq_num |-> None, data |-> None]
    ELSE [seq_num |-> UnpackU32(packet.head), data |-> packet.data]

\* part2 parse_packet: (-1, b"") on a short datagram
p2_parse_packet(packet) ==
    IF DatagramLen(packet) < HEADER_SIZE
    THEN [seq_num |-> 0 - 1, data |-> EmptyBytes]
    ELSE [seq_num |-> UnpackU32(packet.head), data |-> packet.data]

\* ReliableClient.create_ack: cumulative ack, up to two SACK blocks, zero padding
p1_create_ack(cum_ack, sack_blocks) ==
    LET n == Min(2, Len(sack_blocks))
        body == PackU32(cum_ack) \o
                (IF n >= 1 THEN PackU32(sack_blocks[1][1]) \o PackU32(sack_blocks[1][2])
                 ELSE <<>>) \o
                (IF n >= 2 THEN PackU32(sack_blocks[2][1]) \o PackU32(sack_blocks[2][2])
                 ELSE <<>>)
    IN  body \o Zeros(Max(0, HEADER_SIZE - Len(body)))

\* part2 create_ack
p2_create_ack(seq_num) == PackU32(seq_num) \o Zeros(16)

\* ReliableServer.parse_ack, one pass of "for i in range(2)": the block at
\* offset 4 + 8 i, kept when left > 0 and right > 0 and right > left
p1_sack_block_any(packet, i) ==
    LET offset == 4 + i * 8
    IN  IF offset + 8 <= Len(packet)
        THEN <<<<UnpackU32(SubSeq(packet, offset + 1, offset + 4)),
                 UnpackU32(SubSeq(packet, offset + 5, offset + 8))>>>>
        ELSE <<>>
p1_sack_block(packet, i) ==
    LET offset == 4 + i * 8
    IN  IF offset + 8 <= Len(packet)
        THEN LET left == UnpackU32(SubSeq(packet, offset + 1, offset + 4))
                 right == UnpackU32(SubSeq(packet, offset + 5, offset + 8))
             IN  IF left > 0 /\ right > 0 /\ right > left
                 THEN <<<<left, right>>>> ELSE <<>>
        ELSE <<>>
\* ReliableServer.parse_ack: (None, []) on fewer than 4 bytes
p1_parse_ack(packet) ==
    IF Len(packet) < 4
    THEN [cum_ack |-> None, sack_blocks |-> <<>>]
    ELSE [cum_ack |-> UnpackU32(packet),
          sack_blocks |-> IF Len(packet) >= 20
                          THEN p1_sack_block(packet, 0) \o p1_sack_block(packet, 1)
                          ELSE <<>>]

\* CongestionControlServer.parse_ack
p2_parse_ack(packet) == IF Len(packet) < 4 THEN None ELSE UnpackU32(packet)

\* the connection requests: b'\x01' and b"START"
P1_REQUEST == <<1>>
P2_REQUEST == <<83, 84, 65, 82, 84>>

(***************************************************************************)
(* The datagram transport.  An ordered transport is a queue.  An unordered *)
(* one delivers the datagrams in flight in any order, so only how many     *)
(* copies of each are in flight is kept (a bag).                           *)
(***************************************************************************)
EmptyChan == IF ordered THEN <<>> ELSE EmptyBag
\* sendto
ChanPut(q, dg) == IF ordered THEN Append(q, dg) ELSE q (+) SetToBag({dg})
RECURSIVE ChanPutAll(_, _)
ChanPutAll(q, dgs) == IF ordered THEN q \o dgs
                      ELSE IF dgs = <<>> THEN q
                      ELSE ChanPutAll(ChanPut(q, Head(dgs)), Tail(dgs))
\* the datagrams recvfrom may return next
Receivable(q) == IF ordered THEN (IF q = <<>> THEN {} ELSE {Head(q)})
                 ELSE BagToSet(q)
ChanTake(q, dg) == IF ordered THEN Tail(q) ELSE q (-) SetToBag({dg})
ChanEmpty(q) == Receivable(q) = {}
\* socket.close(): a datagram for a closed socket is discarded
ClientClosed(pc) == pc \in {"done", "failed"}
ServerClosed(pc) == pc = "done"
\* the client's inbound datagrams after a step that leaves it at pc
Inbound(pc, q) == IF ClientClosed(pc) THEN EmptyChan ELSE q
\* sendto by the server / by the client
ToClient(q, dgs) == IF ClientClosed(cpc) THEN q ELSE ChanPutAll(q, dgs)
ToServer(q, dgs) == IF ServerClosed(spc) THEN q ELSE ChanPutAll(q, dgs)

(***************************************************************************)
(* The file and its segmentation ("Create all packets upfront").           *)
(***************************************************************************)
\* total_packets = len(chunks)
TotalPackets(size) == (size + DATA_SIZE - 1) \div DATA_SIZE
total_packets == TotalPackets(file_size)
\* part1: seq_nums holds the byte offset of every chunk
IsSeqNum(s) == s >= 0 /\ s < file_size /\ s % DATA_SIZE = 0
\* chunks one byte shorter than the stride of seq_nums
p1_chunk_short(s) == FileSlice(s, Min(s + DATA_SIZE - 1, file_size))
\* part1: the chunk whose seq_nums entry is s, file_data[s:s+DATA_SIZE]
p1_chunk(s) == FileSlice(s, Min(s + DATA_SIZE, file_size))
\* part2: chunks[i]
p2_chunk(i) == FileSlice(i * DATA_SIZE, Min((i + 1) * DATA_SIZE, file_size))

(***************************************************************************)
(* RTO estimator.                                                          *)
(***************************************************************************)
\* the upper clamp left out
ClampRto_unbounded(r) == Max(MIN_RTO, r)
\* self.rto = max(MIN_RTO, min(MAX_RTO, self.rto))
ClampRto(r) == Max(MIN_RTO, Min(MAX_RTO, r))

\* ReliableServer.update_rto
p1_update_rto(est, dev, sample_rtt) ==
    LET d == IF est = None THEN sample_rtt \div 2
             ELSE (3 * dev + Abs(sample_rtt - est)) \div 4
        e == IF est = None THEN sample_rtt
             ELSE (7 * est + sample_rtt) \div 8
    IN  [estimated_rtt |-> e, dev_rtt |-> d, rto |-> ClampRto(e + 6 * d)]

\* CongestionControlServer.update_rto
p2_update_rto(est, dev, sample_rtt) ==
    LET d == IF est = P2_INITIAL_RTO THEN sample_rtt \div 2
             ELSE (3 * dev + Abs(est - sample_rtt)) \div 4
        e == IF est = P2_INITIAL_RTO THEN sample_rtt
             ELSE (7 * est + sample_rtt) \div 8
    IN  [estimated_rtt |-> e, dev_rtt |-> d, rto |-> ClampRto(e + 4 * d)]

(***************************************************************************)
(* Congestion controller.  cwnd = w + f / CwndScale, 0 <= f < CwndScale.   *)
(***************************************************************************)
Cwnd(w, f) == [w |-> w, f |-> f]
\* int(self.cwnd)
CwndInt(c) == c.w
\* ceil(cwnd)
CwndCeil(c) == IF c.f > 0 THEN c.w + 1 ELSE c.w
\* c + n / c, the quotient truncated to 1/CwndScale (c >= 1, so n / c <= n)
CwndAddQuot(c, n) ==
    LET D == c.w * CwndScale + c.f
        b == n % D
        qi == (n \div D) * CwndScale + (b * CwndScale) \div D
        qf == (((b * CwndScale) % D) * CwndScale) \div D
        f2 == c.f + qf
    IN  Cwnd(c.w + qi + (f2 \div CwndScale), f2 % CwndScale)

\* congestion avoidance that adds the acked segments themselves
on_new_ack_additive(c, ss, iss, acked_packets) ==
    LET c2 == Cwnd(c.w + acked_packets, c.f)
    IN  [cwnd |-> c2, ssthresh |-> ss, in_slow_start |-> iss /\ ~(c2.w >= ss)]
\* slow start that is never left
on_new_ack_sticky(c, ss, iss, acked_packets) ==
    IF iss
    THEN [cwnd |-> Cwnd(c.w + acked_packets, c.f), ssthresh |-> ss,
          in_slow_start |-> TRUE]
    ELSE [cwnd |-> CwndAddQuot(c, acked_packets), ssthresh |-> ss,
          in_slow_start |-> FALSE]
\* CongestionControlServer.on_new_ack
on_new_ack(c, ss, iss, acked_packets) ==
    IF iss
    THEN LET c2 == Cwnd(c.w + acked_packets, c.f)
         IN  [cwnd |-> c2, ssthresh |-> ss, in_slow_start |-> ~(c2.w >= ss)]
    ELSE [cwnd |-> CwndAddQuot(c, acked_packets), ssthresh |-> ss,
          in_slow_start |-> FALSE]

\* ssthresh halved without the floor of 2
on_timeout_nofloor(c, r) ==
    [ssthresh |-> CwndInt(c) \div 2, cwnd |-> Cwnd(1, 0),
     in_slow_start |-> TRUE, rto |-> Min(r * 2, MAX_RTO)]
\* the 4x back-off the code replaced
on_timeout_4x(c, r) ==
    [ssthresh |-> Max(CwndInt(c) \div 2, 2), cwnd |-> Cwnd(1, 0),
     in_slow_start |-> TRUE, rto |-> Min(r * 4, MAX_RTO)]
\* CongestionControlServer.on_timeout
on_timeout(c, r) ==
    [ssthresh |-> Max(CwndInt(c) \div 2, 2), cwnd |-> Cwnd(1, 0),
     in_slow_start |-> TRUE, rto |-> Min(r * 2, MAX_RTO)]

\* fast retransmit without the inflation by 3 segments
on_fast_retransmit_noinflate(c) ==
    LET ss == Max(CwndInt(c) \div 2, 2)
    IN  [ssthresh |-> ss, cwnd |-> Cwnd(ss, 0), in_slow_start |-> FALSE]
\* CongestionControlServer.on_fast_retransmit
on_fast_retransmit(c) ==
    LET ss == Max(CwndInt(c) \div 2, 2)
    IN  [ssthresh |-> ss, cwnd |-> Cwnd(ss + 3, 0), in_slow_start |-> FALSE]

(***************************************************************************)
(* In-flight map and timestamps.                                           *)
(***************************************************************************)
NoPackets == [x \in {} |-> 0]
Keys(m) == DOMAIN m
\* d[k] = v
Put(m, k, v) == [x \in (DOMAIN m) \cup {k} |-> IF x = k THEN v ELSE m[x]]
\* del d[k] for every k in ks
Drop(m, ks) == [x \in (DOMAIN m) \ ks |-> m[x]]
\* an in-flight record: ts = rank of its send_time, orig = send_time is still
\* the time of the first transmission
Rec(ts, orig) == [ts |-> ts, orig |-> orig]
Stamps(pk) == {pk[x].ts : x \in DOMAIN pk}
Rank(T, v) == Cardinality({x \in T : x <= v})
\* time.time() at the top of a loop iteration: later than every send_time
Renumber(pk) == [x \in DOMAIN pk |-> Rec(Rank(Stamps(pk), pk[x].ts), pk[x].orig)]
NextTime(pk) == Cardinality(Stamps(pk)) + 1

\* RTT samples (current_time - send_time) the main specification explores
RttSamples == {20000}

(***************************************************************************)
(* part1 server: ReliableServer.send_file                                  *)
(***************************************************************************)
\* "Send packets to fill window": the inner while loop, from a state
\* st = [nsn, pk, out, sent, hang]
\* a pass that admits one segment whenever unsent data remains
p1_fill_window_nowindow(st, sb, ct) ==
    IF st.nsn < file_size /\ IsSeqNum(st.nsn) /\ st.nsn \notin Keys(st.pk)
    THEN [nsn  |-> st.nsn + PayLen(p1_chunk(st.nsn)),
          pk   |-> Put(st.pk, st.nsn, Rec(ct, TRUE)),
          out  |-> Append(st.out, create_packet(st.nsn, p1_chunk(st.nsn))),
          sent |-> st.sent + 1,
          hang |-> FALSE]
    ELSE st
RECURSIVE p1_fill_window(_, _, _)
p1_fill_window(st, sb, ct) ==
    IF ~(st.nsn < file_size /\ st.nsn - sb < sws /\ st.sent < P1_BURST_LIMIT)
    THEN st
    ELSE IF ~IsSeqNum(st.nsn)
    THEN st                                   \* chunk_idx is None: break
    ELSE IF st.nsn \in Keys(st.pk)
    THEN [st EXCEPT !.hang = TRUE]            \* the loop repeats without progress
    ELSE p1_fill_window(
            [nsn  |-> st.nsn + PayLen(p1_chunk(st.nsn)),
             pk   |-> Put(st.pk, st.nsn, Rec(ct, TRUE)),
             out  |-> Append(st.out, create_packet(st.nsn, p1_chunk(st.nsn))),
             sent |-> st.sent + 1,
             hang |-> FALSE], sb, ct)

\* the loop left while the last segment is still unacknowledged
p1_loop_test_early(sb) == sb + DATA_SIZE < file_size
\* "while self.send_base < file_size"
p1_loop_test(sb) == sb < file_size

\* One pass of the main loop from its test "while self.send_base < file_size"
\* through the window fill, up to the first recvfrom of the ack loop; or, when
\* the test fails, on to "Send EOF".
p1_loop_top(sb, nsn, pk0, ct0) ==
    IF p1_loop_test(sb)
    THEN LET pk == Renumber(pk0)
             ct == NextTime(pk)
             r  == p1_fill_window([nsn |-> nsn, pk |-> pk, out |-> <<>>,
                                   sent |-> 0, hang |-> FALSE], sb, ct)
         IN  [spc |-> IF r.hang THEN "hung" ELSE "acks", current_time |-> ct,
              next_seq_num |-> r.nsn, packets |-> r.pk, out |-> r.out, sent |-> r.sent]
    ELSE [spc |-> "eof", current_time |-> ct0, next_seq_num |-> nsn,
          packets |-> pk0, out |-> <<>>, sent |-> 0]

\* wait_for_client_request, then send_file up to its first recvfrom
P1S_Accept(dg) ==
    /\ variant = "p1" /\ spc = "wait"
    /\ dg \in Receivable(c2s)
    /\ c2s' = ChanTake(c2s, dg)
    /\ LET t == p1_loop_top(0, 0, packets, current_time)
       IN  /\ send_base' = 0
           /\ spc' = t.spc
           /\ current_time' = t.current_time
           /\ next_seq_num' = t.next_seq_num
           /\ packets' = t.packets
           /\ s2c' = ToClient(s2c, t.out)
           /\ total_packets_sent' = total_packets_sent + t.sent
           /\ acks_processed' = 0
    /\ UNCHANGED <<dup_ack_count, estimated_rtt, dev_rtt, rto, cwnd, ssthresh,
                   in_slow_start, retransmissions, fast_retransmits, eof_sent,
                   faults>>
    /\ UNCHANGED <<fixedVars, clientVars>>

\* a stale acknowledgment taken for a new one
p1_is_new_ack_any(cum_ack, sb) == cum_ack # None /\ cum_ack # sb
\* "if cum_ack is not None and cum_ack > self.send_base"
p1_is_new_ack(cum_ack, sb) == cum_ack # None /\ cum_ack > sb

\* only the record at send_base is removed
p1_acked_seqs_first(pk, sb, cum_ack) == {s \in Keys(pk) : s = sb}
\* acked_seqs = [s for s in list(self.packets.keys()) if s < cum_ack]
p1_acked_seqs(pk, sb, cum_ack) == {s \in Keys(pk) : s < cum_ack}

\* The body of the ack loop for one datagram: the new state of
\* (send_base, packets, dup_ack_count, rto estimator, retransmissions) and the
\* datagrams sent.  sample_rtt is current_time - send_time of packets[send_base].
p1_on_ack(cum_ack, sample_rtt) ==
    LET same == [send_base |-> send_base, packets |-> packets,
                 dup_ack_count |-> dup_ack_count, estimated_rtt |-> estimated_rtt,
                 dev_rtt |-> dev_rtt, rto |-> rto,
                 retransmissions |-> retransmissions,
                 fast_retransmits |-> fast_retransmits, out |-> <<>>]
    IN  IF p1_is_new_ack(cum_ack, send_base)
        THEN LET u == IF send_base \in Keys(packets) /\ sample_rtt > 0
                      THEN p1_update_rto(estimated_rtt, dev_rtt, sample_rtt)
                      ELSE [estimated_rtt |-> estimated_rtt, dev_rtt |-> dev_rtt,
                            rto |-> rto]
             IN  [same EXCEPT
                    !.estimated_rtt = u.estimated_rtt,
                    !.dev_rtt = u.dev_rtt,
                    !.rto = u.rto,
                    !.packets = Drop(packets, p1_acked_seqs(packets, send_base, cum_ack)),
                    !.send_base = cum_ack,
                    !.dup_ack_count = 0]
        ELSE IF cum_ack = send_base /\ send_base < file_size
        THEN IF dup_ack_count + 1 = 3 /\ send_base \in Keys(packets)
             THEN [same EXCEPT
                    !.out = <<create_packet(send_base, p1_chunk(send_base))>>,
                    !.packets = Put(packets, send_base, Rec(current_time, FALSE)),
                    !.retransmissions = retransmissions + 1,
                    !.fast_retransmits = fast_retransmits + 1,
                    !.dup_ack_count = 0]
             ELSE [same EXCEPT !.dup_ack_count = dup_ack_count + 1]
        ELSE same

\* the RTT samples the clock can produce for the packet at send_base
SampleSet == IF send_base \in Keys(packets) /\ packets[send_base].ts < current_time
             THEN RttSamples ELSE {0}

\* one iteration of the ack loop on the datagram ack_packet that recvfrom
\* returned; the address recvfrom returned with it is discarded
p1_ack_step(dg) ==
    /\ variant = "p1" /\ spc = "acks"
    /\ acks_processed < P1_ACK_BATCH
    /\ acks_processed' = acks_processed + 1
    /\ \E sample_rtt \in (IF p1_is_new_ack(p1_parse_ack(dg).cum_ack, send_base)
                          THEN SampleSet ELSE {0}) :
         LET r == p1_on_ack(p1_parse_ack(dg).cum_ack, sample_rtt)
         IN  /\ send_base' = r.send_base
             /\ packets' = r.packets
             /\ dup_ack_count' = r.dup_ack_count
             /\ estimated_rtt' = r.estimated_rtt
             /\ dev_rtt' = r.dev_rtt
             /\ rto' = r.rto
             /\ retransmissions' = r.retransmissions
             /\ fast_retransmits' = r.fast_retransmits
             /\ s2c' = ToClient(s2c, r.out)
    /\ UNCHANGED <<spc, next_seq_num, current_time, cwnd, ssthresh, in_slow_start,
                   total_packets_sent, eof_sent>>
    /\ UNCHANGED <<fixedVars, clientVars>>

\* the ack loop takes a datagram of the client from the socket
P1S_RecvAck(dg) ==
    /\ dg \in Receivable(c2s)
    /\ c2s' = ChanTake(c2s, dg)
    /\ faults' = faults
    /\ p1_ack_step(dg)

\* "Check for timeouts (only oldest packet)": expired says whether
\* current_time - send_time > self.rto for the oldest packet.
p1_check_timeout(pk, ct, expired) ==
    IF Keys(pk) # {} /\ expired
    THEN LET oldest_seq == SetMin(Keys(pk))
         IN  [packets |-> Put(pk, oldest_seq, Rec(ct, FALSE)),
              out |-> <<create_packet(oldest_seq, p1_chunk(oldest_seq))>>, n |-> 1]
    ELSE [packets |-> pk, out |-> <<>>, n |-> 0]

\* a packet stamped in this iteration has age 0: it cannot have expired
P1CanExpire == /\ Keys(packets) # {}
               /\ packets[SetMin(Keys(packets))].ts < current_time

\* socket.timeout (or 50 acks processed) ends the ack loop; then the timeout
\* check and the next pass of the main loop.
p1_end_acks(expired) ==
    /\ variant = "p1" /\ spc = "acks"
    /\ expired => P1CanExpire
    /\ LET c == p1_check_timeout(packets, current_time, expired)
           t == p1_loop_top(send_base, next_seq_num, c.packets, current_time)
       IN  /\ retransmissions' = retransmissions + c.n
           /\ spc' = t.spc
           /\ current_time' = t.current_time
           /\ next_seq_num' = t.next_seq_num
           /\ packets' = t.packets
           /\ s2c' = ToClient(s2c, c.out \o t.out)
           /\ total_packets_sent' = total_packets_sent + t.sent
           /\ acks_processed' = 0
    /\ UNCHANGED <<c2s, send_base, dup_ack_count, estimated_rtt, dev_rtt, rto, cwnd,
                   ssthresh, in_slow_start, fast_retransmits, eof_sent>>
    /\ UNCHANGED <<fixedVars, clientVars>>

\* an expiry of the retransmission timer counts as a timer event
P1S_EndAcks(expired) ==
    /\ expired => faults < MaxFaults
    /\ faults' = IF expired THEN faults + 1 ELSE faults
    /\ p1_end_acks(expired)

\* "Send EOF": the 10 sendto calls.  The server receives nothing between
\* them, so they are taken as one step.
P1S_SendEOF ==
    /\ variant = "p1" /\ spc = "eof"
    /\ s2c' = ToClient(s2c, [j \in 1..P1_EOF_SENDS |->
                                create_packet(file_size, EOF_MARKER)])
    /\ eof_sent' = eof_sent + P1_EOF_SENDS
    /\ spc' = "done"
    /\ c2s' = EmptyChan
    /\ UNCHANGED <<faults, send_base, next_seq_num, packets, current_time,
                   dup_ack_count, acks_processed, estimated_rtt, dev_rtt, rto, cwnd,
                   ssthresh, in_slow_start, total_packets_sent, retransmissions,
                   fast_retransmits>>
    /\ UNCHANGED <<fixedVars, clientVars>>

(***************************************************************************)
(* part2 server: CongestionControlServer.send_file                         *)
(***************************************************************************)
\* a window one segment too large
p2_window_size_plus(c) == Max(1, CwndInt(c)) + 1
\* window_size = max(1, int(self.cwnd))
p2_window_size(c) == Max(1, CwndInt(c))

\* "Send packets within congestion window": the inner while loop, from a
\* state st = [nsn, pk, out]
RECURSIVE p2_fill_window(_, _, _, _)
p2_fill_window(st, sb, window_size, ct) ==
    IF ~(st.nsn < total_packets /\ st.nsn < sb + window_size)
    THEN st
    ELSE p2_fill_window(
            [nsn |-> st.nsn + 1,
             pk  |-> Put(st.pk, st.nsn, Rec(ct, TRUE)),
             out |-> Append(st.out, create_packet(st.nsn, p2_chunk(st.nsn)))],
            sb, window_size, ct)

\* "Check timeouts periodically": the first record, in the order of the map,
\* whose age exceeds rto.  The records with a stamp of rank <= th are the
\* expired ones (th = 0: none, or the periodic check is skipped).
p2_first_expired(pk, th) ==
    LET old == {x \in Keys(pk) : pk[x].ts <= th}
    IN  IF old = {} THEN None ELSE SetMin(old)

\* One pass of the main loop from its test "while self.send_base <
\* total_packets" through window fill and timeout check, up to the first
\* recvfrom of the ack loop; or, when the test fails, on to "Send EOF".
p2_loop_top(sb, nsn, pk0, c, ss, iss, r, ct0, th) ==
    IF sb < total_packets
    THEN LET pk == Renumber(pk0)
             ct == NextTime(pk)
             w  == p2_fill_window([nsn |-> nsn, pk |-> pk, out |-> <<>>],
                                  sb, p2_window_size(c), ct)
             x  == p2_first_expired(w.pk, th)
             t  == on_timeout(c, r)
         IN  IF x = None
             THEN [spc |-> "acks", current_time |-> ct, next_seq_num |-> w.nsn,
                   packets |-> w.pk, out |-> w.out, sent |-> Len(w.out), retx |-> 0,
                   cwnd |-> c, ssthresh |-> ss, in_slow_start |-> iss, rto |-> r]
             ELSE [spc |-> "acks", current_time |-> ct, next_seq_num |-> w.nsn,
                   packets |-> Put(w.pk, x, Rec(ct, FALSE)),
                   out |-> Append(w.out, create_packet(x, p2_chunk(x))),
                   sent |-> Len(w.out), retx |-> 1,
                   cwnd |-> t.cwnd, ssthresh |-> t.ssthresh,
                   in_slow_start |-> t.in_slow_start, rto |-> t.rto]
    ELSE [spc |-> "eof", current_time |-> ct0, next_seq_num |-> nsn, packets |-> pk0,
          out |-> <<>>, sent |-> 0, retx |-> 0,
          cwnd |-> c, ssthresh |-> ss, in_slow_start |-> iss, rto |-> r]

\* the thresholds th the clock allows at the top of the next pass
P2Thresholds(pk) == 0..Cardinality(Stamps(pk))

P2ApplyLoopTop(t) ==
    /\ spc' = t.spc
    /\ current_time' = t.current_time
    /\ next_seq_num' = t.next_seq_num
    /\ packets' = t.packets
    /\ s2c' = ToClient(s2c, t.out)
    /\ total_packets_sent' = total_packets_sent + t.sent
    /\ retransmissions' = retransmissions + t.retx
    /\ cwnd' = t.cwnd
    /\ ssthresh' = t.ssthresh
    /\ in_slow_start' = t.in_slow_start
    /\ rto' = t.rto
    /\ acks_processed' = 0

\* wait_for_client_request, then send_file up to its first recvfrom
P2S_Accept(dg) ==
    /\ variant = "p2" /\ spc = "wait"
    /\ dg \in Receivable(c2s)
    /\ c2s' = ChanTake(c2s, dg)
    /\ send_base' = 0
    /\ P2ApplyLoopTop(p2_loop_top(0, 0, packets, cwnd, ssthresh, in_slow_start, rto,
                                  current_time, 0))
    /\ UNCHANGED <<dup_ack_count, estimated_rtt, dev_rtt, fast_retransmits, eof_sent,
                   faults>>
    /\ UNCHANGED <<fixedVars, clientVars>>

\* dict.get(k, 0)
Get0(m, k) == IF k \in DOMAIN m THEN m[k] ELSE 0

\* The body of the ack loop for one datagram ("if ack_seq is not None").
\* sample_rtt is current_time - send_time of packets[send_base].
p2_on_ack(ack_seq, sample_rtt) ==
    LET same == [send_base |-> send_base, packets |-> packets,
                 dup_ack_count |-> dup_ack_count, estimated_rtt |-> estimated_rtt,
                 dev_rtt |-> dev_rtt, rto |-> rto, cwnd |-> cwnd,
                 ssthresh |-> ssthresh, in_slow_start |-> in_slow_start,
                 retransmissions |-> retransmissions,
                 fast_retransmits |-> fast_retransmits, out |-> <<>>]
    IN  IF ack_seq = None THEN same
        ELSE IF ack_seq > send_base
        THEN LET acked_packets == ack_seq - send_base
                 u == IF /\ send_base \in Keys(packets)
                         /\ sample_rtt > 0 /\ sample_rtt < rto * 2
                      THEN p2_update_rto(estimated_rtt, dev_rtt, sample_rtt)
                      ELSE [estimated_rtt |-> estimated_rtt, dev_rtt |-> dev_rtt,
                            rto |-> rto]
                 acked == {x \in Keys(packets) \cup Keys(dup_ack_count) :
                             x >= send_base /\ x < ack_seq}
                 g == on_new_ack(cwnd, ssthresh, in_slow_start, acked_packets)
             IN  [same EXCEPT
                    !.estimated_rtt = u.estimated_rtt,
                    !.dev_rtt = u.dev_rtt,
                    !.rto = u.rto,
                    !.packets = Drop(packets, acked),
                    !.dup_ack_count = Drop(dup_ack_count, acked),
                    !.send_base = ack_seq,
                    !.cwnd = g.cwnd,
                    !.ssthresh = g.ssthresh,
                    !.in_slow_start = g.in_slow_start]
        ELSE IF ack_seq = send_base /\ send_base < total_packets
        THEN LET n == Get0(dup_ack_count, ack_seq) + 1
                 f == on_fast_retransmit(cwnd)
             IN  IF n = 3 /\ send_base \in Keys(packets)
                 THEN [same EXCEPT
                        !.dup_ack_count = Put(dup_ack_count, ack_seq, n),
                        !.out = <<create_packet(send_base, p2_chunk(send_base))>>,
                        !.packets = Put(packets, send_base, Rec(current_time, FALSE)),
                        !.retransmissions = retransmissions + 1,
                        !.fast_retransmits = fast_retransmits + 1,
                        !.cwnd = f.cwnd,
                        !.ssthresh = f.ssthresh,
                        !.in_slow_start = f.in_slow_start]
                 ELSE [same EXCEPT !.dup_ack_count = Put(dup_ack_count, ack_seq, n)]
        ELSE same

\* one iteration of the ack loop on the datagram ack_packet that recvfrom
\* returned; the address recvfrom returned with it is discarded
p2_ack_step(dg) ==
    /\ variant = "p2" /\ spc = "acks"
    /\ acks_processed < P2_ACK_BATCH
    /\ acks_processed' = acks_processed + 1
    /\ \E sample_rtt \in (IF p2_parse_ack(dg) > send_base THEN SampleSet ELSE {0}) :
         LET r == p2_on_ack(p2_parse_ack(dg), sample_rtt)
         IN  /\ send_base' = r.send_base
             /\ packets' = r.packets
             /\ dup_ack_count' = r.dup_ack_count
             /\ estimated_rtt' = r.estimated_rtt
             /\ dev_rtt' = r.dev_rtt
             /\ rto' = r.rto
             /\ cwnd' = r.cwnd
             /\ ssthresh' = r.ssthresh
             /\ in_slow_start' = r.in_slow_start
             /\ retransmissions' = r.retransmissions
             /\ fast_retransmits' = r.fast_retransmits
             /\ s2c' = ToClient(s2c, r.out)
    /\ UNCHANGED <<spc, next_seq_num, current_time, total_packets_sent, eof_sent>>
    /\ UNCHANGED <<fixedVars, clientVars>>

\* the ack loop takes a datagram of the client from the socket
P2S_RecvAck(dg) ==
    /\ dg \in Receivable(c2s)
    /\ c2s' = ChanTake(c2s, dg)
    /\ faults' = faults
    /\ p2_ack_step(dg)

\* socket.timeout (or 10 acks processed) ends the ack loop; then the next
\* pass of the main loop.  th > 0: some record's age exceeds rto.
p2_end_acks(th) ==
    /\ variant = "p2" /\ spc = "acks"
    /\ th \in P2Thresholds(packets)
    /\ th > 0 => send_base < total_packets
    /\ P2ApplyLoopTop(p2_loop_top(send_base, next_seq_num, packets, cwnd, ssthresh,
                                  in_slow_start, rto, current_time, th))
    /\ UNCHANGED <<c2s, send_base, dup_ack_count, estimated_rtt, dev_rtt,
                   fast_retransmits, eof_sent>>
    /\ UNCHANGED <<fixedVars, clientVars>>

\* an expiry of the retransmission timer counts as a timer event
P2S_EndAcks(th) ==
    /\ th > 0 => faults < MaxFaults
    /\ faults' = IF th > 0 THEN faults + 1 ELSE faults
    /\ p2_end_acks(th)

\* "Send EOF": the 20 sendto calls.  The server receives nothing between
\* them, so they are taken as one step.
P2S_SendEOF ==
    /\ variant = "p2" /\ spc = "eof"
    /\ s2c' = ToClient(s2c, [j \in 1..P2_EOF_SENDS |->
                                create_packet(total_packets, EOF_MARKER)])
    /\ eof_sent' = eof_sent + P2_EOF_SENDS
    /\ spc' = "done"
    /\ c2s' = EmptyChan
    /\ UNCHANGED <<faults, send_base, next_seq_num, packets, current_time,
                   dup_ack_count, acks_processed, estimated_rtt, dev_rtt, rto, cwnd,
                   ssthresh, in_slow_start, total_packets_sent, retransmissions,
                   fast_retransmits>>
    /\ UNCHANGED <<fixedVars, clientVars>>

(***************************************************************************)
(* Connection request (both clients).                                      *)
(***************************************************************************)
Request == IF variant = "p1" THEN P1_REQUEST ELSE P2_REQUEST

\* the first sendto of the retry loop
C_Connect ==
    /\ cpc = "init"
    /\ c2s' = ToServer(c2s, <<Request>>)
    /\ attempt' = 1
    /\ cpc' = "await"
    /\ UNCHANGED <<s2c, faults, expected_seq, received_data, eof_seq, eof_seen,
                   packets_this_round, no_data_count, packets_received, sink>>
    /\ UNCHANGED <<fixedVars, serverVars>>

\* one attempt too many
c_attempts_left_more(n) == n <= MAX_RETRIES
\* "for attempt in range(MAX_RETRIES)": after n attempts another one follows
c_attempts_left(n) == n < MAX_RETRIES

\* no segment within the attempt's timeout (part1: RETRY_TIMEOUT, part2: the
\* socket timeout): the next attempt sends the request again
c_retry ==
    /\ cpc = "await" /\ c_attempts_left(attempt)
    /\ c2s' = ToServer(c2s, <<Request>>)
    /\ attempt' = attempt + 1
    /\ UNCHANGED <<s2c, cpc, expected_seq, received_data, eof_seq, eof_seen,
                   packets_this_round, no_data_count, packets_received, sink>>
    /\ UNCHANGED <<fixedVars, serverVars>>

\* a retry while the session is under way counts as a timer event
C_Retry ==
    /\ faults < MaxFaults
    /\ faults' = faults + 1
    /\ c_retry

\* the last attempt timed out: send_request returns False / receive_file returns
C_GiveUp ==
    /\ cpc = "await" /\ ~c_attempts_left(attempt)
    /\ cpc' = "failed"
    /\ s2c' = EmptyChan
    /\ UNCHANGED <<c2s, faults, attempt, expected_seq, received_data, eof_seq, eof_seen,
                   packets_this_round, no_data_count, packets_received, sink>>
    /\ UNCHANGED <<fixedVars, serverVars>>

(***************************************************************************)
(* part1 client: ReliableClient                                            *)
(***************************************************************************)
\* write_in_order_data, from st = [expected_seq, received_data, sink, eof_seq]
RECURSIVE write_in_order_data(_)
write_in_order_data(st) ==
    IF st.expected_seq \notin Keys(st.received_data)
    THEN st
    ELSE LET data == st.received_data[st.expected_seq]
             rest == Drop(st.received_data, {st.expected_seq})
         IN  IF IsEofMarker(data)
             THEN [st EXCEPT !.received_data = rest, !.eof_seq = st.expected_seq]
             ELSE write_in_order_data(
                    [st EXCEPT !.received_data = rest,
                               !.sink = Append(st.sink, data),
                               !.expected_seq = st.expected_seq + PayLen(data)])

\* generate_sack_blocks: the loop over sorted_seqs[1:], then blocks[:2]
RECURSIVE SackRuns_split(_, _, _, _, _)
SackRuns_split(rd, seqs, start, end, blocks) ==
    IF seqs = <<>>
    THEN Append(blocks, <<start, end>>)
    ELSE SackRuns_split(rd, Tail(seqs), Head(seqs),
                        Head(seqs) + PayLen(rd[Head(seqs)]),
                        Append(blocks, <<start, end>>))
RECURSIVE SackRuns(_, _, _, _, _)
SackRuns(rd, seqs, start, end, blocks) ==
    IF seqs = <<>>
    THEN Append(blocks, <<start, end>>)
    ELSE LET seq == Head(seqs)
         IN  IF seq = end
             THEN SackRuns(rd, Tail(seqs), start, seq + PayLen(rd[seq]), blocks)
             ELSE SackRuns(rd, Tail(seqs), seq, seq + PayLen(rd[seq]),
                           Append(blocks, <<start, end>>))

generate_sack_blocks(rd) ==
    IF Keys(rd) = {} THEN <<>>
    ELSE LET sorted_seqs == SortedSeq(Keys(rd))
             start == sorted_seqs[1]
             blocks == SackRuns(rd, Tail(sorted_seqs), start,
                                start + PayLen(rd[start]), <<>>)
         IN  SubSeq(blocks, 1, Min(2, Len(blocks)))

\* "Send final ACKs": 5 copies of create_ack(expected_seq) when eof_seq is set
p1_final_acks(exp, eofs) ==
    IF eofs # None
    THEN [j \in 1..P1_FINAL_ACKS |-> p1_create_ack(exp, <<>>)]
    ELSE <<>>

\* send_request receives a datagram; a valid one connects, and receive_file
\* runs up to its first recvfrom (or to its end, when eof_seq is already set)
P1C_RecvFirst(dg) ==
    /\ variant = "p1" /\ cpc = "await"
    /\ dg \in Receivable(s2c)
    /\ LET m == p1_parse_packet(dg)
       IN  IF m.seq_num = None
           THEN UNCHANGED <<c2s, cpc, received_data, eof_seq, sink>>
           ELSE /\ IF IsEofMarker(m.data)
                   THEN /\ eof_seq' = m.seq_num
                        /\ received_data' = received_data
                   ELSE /\ received_data' = Put(received_data, m.seq_num, m.data)
                        /\ eof_seq' = eof_seq
                /\ sink' = <<>>
                /\ cpc' = IF eof_seq' = None THEN "recv" ELSE "done"
                /\ c2s' = ToServer(c2s, p1_final_acks(expected_seq, eof_seq'))
    /\ UNCHANGED <<faults, attempt, expected_seq, eof_seen, packets_this_round,
                   no_data_count, packets_received>>
    /\ s2c' = Inbound(cpc', ChanTake(s2c, dg))
    /\ UNCHANGED <<fixedVars, serverVars>>

\* the body of the receive loop for one datagram: the new
\* [expected_seq, received_data, sink, eof_seq] and whether the loop breaks
p1_on_packet(packet) ==
    LET m  == p1_parse_packet(packet)
        st == [expected_seq |-> expected_seq, received_data |-> received_data,
               sink |-> sink, eof_seq |-> eof_seq]
    IN  IF m.seq_num = None
        THEN [st |-> st, valid |-> FALSE, brk |-> FALSE]
        ELSE IF IsEofMarker(m.data)
        THEN [st |-> write_in_order_data([st EXCEPT !.eof_seq = m.seq_num]),
              valid |-> TRUE, brk |-> TRUE]
        ELSE [st |-> write_in_order_data(
                       IF m.seq_num >= expected_seq /\ m.seq_num \notin Keys(received_data)
                       THEN [st EXCEPT !.received_data =
                                          Put(received_data, m.seq_num, m.data)]
                       ELSE st),
              valid |-> TRUE, brk |-> FALSE]

\* the acknowledgment sent at the end of a round
p1_round_ack(exp, rd) == p1_create_ack(exp, generate_sack_blocks(rd))

P1C_Recv(dg) ==
    /\ variant = "p1" /\ cpc = "recv"
    /\ packets_this_round < P1_RECV_BATCH
    /\ dg \in Receivable(s2c)
    /\ LET r == p1_on_packet(dg)
       IN  /\ expected_seq' = r.st.expected_seq
           /\ received_data' = r.st.received_data
           /\ sink' = r.st.sink
           /\ eof_seq' = r.st.eof_seq
           /\ no_data_count' = IF r.valid THEN 0 ELSE no_data_count
           /\ packets_received' = IF r.valid THEN packets_received + 1
                                  ELSE packets_received
           /\ IF r.brk
              THEN \* break: the round's ack, the loop test fails, the final acks
                   /\ c2s' = ToServer(c2s,
                                <<p1_round_ack(r.st.expected_seq, r.st.received_data)>>
                                \o p1_final_acks(r.st.expected_seq, r.st.eof_seq))
                   /\ cpc' = "done"
                   /\ packets_this_round' = 0
              ELSE /\ c2s' = c2s
                   /\ cpc' = cpc
                   /\ packets_this_round' = packets_this_round + 1
    /\ UNCHANGED <<faults, attempt, eof_seen>>
    /\ s2c' = Inbound(cpc', ChanTake(s2c, dg))
    /\ UNCHANGED <<fixedVars, serverVars>>

\* socket.timeout (or 60 datagrams) ends a round in which datagrams were
\* received: the ack is sent, then the loop test
P1C_EndRound ==
    /\ variant = "p1" /\ cpc = "recv"
    /\ packets_this_round > 0
    /\ c2s' = ToServer(c2s,
                 <<p1_round_ack(expected_seq, received_data)>>
                 \o (IF eof_seq = None /\ no_data_count < P1_STALL_LIMIT
                     THEN <<>> ELSE p1_final_acks(expected_seq, eof_seq)))
    /\ cpc' = IF eof_seq = None /\ no_data_count < P1_STALL_LIMIT
              THEN "recv" ELSE "done"
    /\ packets_this_round' = 0
    /\ UNCHANGED <<faults, attempt, expected_seq, received_data, eof_seq,
                   eof_seen, no_data_count, packets_received, sink>>
    /\ s2c' = Inbound(cpc', s2c)
    /\ UNCHANGED <<fixedVars, serverVars>>

\* a round that receives nothing (socket.timeout at once): the ack timer
\* (3 ms, the length of the round before) has run out, so the ack is sent
p1_idle_round ==
    /\ variant = "p1" /\ cpc = "recv"
    /\ packets_this_round = 0
    /\ c2s' = ToServer(c2s, <<p1_round_ack(expected_seq, received_data)>>
                             \o (IF eof_seq = None /\ no_data_count + 1 < P1_STALL_LIMIT
                                 THEN <<>> ELSE p1_final_acks(expected_seq, eof_seq)))
    /\ no_data_count' = no_data_count + 1
    /\ cpc' = IF eof_seq = None /\ no_data_count + 1 < P1_STALL_LIMIT
              THEN "recv" ELSE "done"
    /\ UNCHANGED <<attempt, expected_seq, received_data, eof_seq, eof_seen,
                   packets_this_round, packets_received, sink>>
    /\ s2c' = Inbound(cpc', s2c)
    /\ UNCHANGED <<fixedVars, serverVars>>

\* an idle round while the session is under way counts as a timer event
P1C_IdleAck ==
    /\ faults < MaxFaults
    /\ faults' = faults + 1
    /\ p1_idle_round

\* stall detection: the rounds up to no_data_count = 500 all receive nothing
\* (their acks, if any, are not delivered); the loop ends without EOF
P1C_Stall ==
    /\ variant = "p1" /\ cpc = "recv"
    /\ packets_this_round = 0
    /\ no_data_count' = P1_STALL_LIMIT
    /\ cpc' = "done"
    /\ c2s' = ToServer(c2s, p1_final_acks(expected_seq, eof_seq))
    /\ s2c' = EmptyChan
    /\ UNCHANGED <<faults, attempt, expected_seq, received_data, eof_seq,
                   eof_seen, packets_this_round, packets_received, sink>>
    /\ UNCHANGED <<fixedVars, serverVars>>

(***************************************************************************)
(* part2 client: receive_file                                              *)
(***************************************************************************)
\* "Check if we have buffered packets": the inner while loop, from
\* st = [expected_seq, received_data, sink, out]
RECURSIVE p2_drain(_)
p2_drain(st) ==
    IF st.expected_seq \notin Keys(st.received_data)
    THEN st
    ELSE LET buffered_data == st.received_data[st.expected_seq]
         IN  IF IsEofMarker(buffered_data)
             THEN [st EXCEPT !.out = Append(st.out, p2_create_ack(st.expected_seq + 1)),
                             !.expected_seq = st.expected_seq + 1]
             ELSE p2_drain(
                    [st EXCEPT !.sink = Append(st.sink, buffered_data),
                               !.received_data = Drop(st.received_data,
                                                      {st.expected_seq}),
                               !.expected_seq = st.expected_seq + 1])

\* a segment at or below expected_seq_num taken for the in-order one
p2_in_order_or_old(seq_num, exp) == seq_num >= 0 /\ seq_num <= exp
\* "if seq_num == expected_seq_num"
p2_in_order(seq_num, exp) == seq_num = exp

\* the body of "while True" for one datagram: the new
\* [expected_seq, received_data, sink], the acks sent and whether the EOF
\* branch breaks the loop
p2_on_packet(packet, exp, ooo, snk) ==
    LET m  == p2_parse_packet(packet)
        st == [expected_seq |-> exp, received_data |-> ooo, sink |-> snk,
               out |-> <<>>, eof |-> FALSE]
    IN  IF p2_in_order(m.seq_num, exp)
        THEN IF IsEofMarker(m.data)
             THEN [st EXCEPT !.out = <<p2_create_ack(exp + 1)>>, !.eof = TRUE]
             ELSE LET d == p2_drain([st EXCEPT !.sink = Append(snk, m.data),
                                               !.expected_seq = exp + 1])
                  IN  [d EXCEPT !.out = Append(d.out, p2_create_ack(d.expected_seq))]
        ELSE IF m.seq_num > exp
        THEN [st EXCEPT !.received_data = Put(ooo, m.seq_num, m.data),
                        !.out = <<p2_create_ack(exp)>>]
        ELSE [st EXCEPT !.out = <<p2_create_ack(exp)>>]

\* a datagram arrives: the first one ends the connection attempts and opens
\* the output file; each one is processed and acknowledged
P2C_Recv(dg) ==
    /\ variant = "p2" /\ cpc \in {"await", "recv"}
    /\ dg \in Receivable(s2c)
    /\ LET r == p2_on_packet(dg, expected_seq, received_data,
                             IF cpc = "await" THEN <<>> ELSE sink)
       IN  /\ expected_seq' = r.expected_seq
           /\ received_data' = r.received_data
           /\ sink' = r.sink
           /\ c2s' = ToServer(c2s, r.out)
           /\ eof_seen' = r.eof
           /\ cpc' = IF r.eof THEN "done" ELSE "recv"
    /\ UNCHANGED <<faults, attempt, eof_seq, packets_this_round, no_data_count,
                   packets_received>>
    /\ s2c' = Inbound(cpc', ChanTake(s2c, dg))
    /\ UNCHANGED <<fixedVars, serverVars>>

\* socket.timeout in the receive loop: "Timeout waiting for data", break
P2C_Timeout ==
    /\ variant = "p2" /\ cpc = "recv"
    /\ cpc' = "done"
    /\ s2c' = EmptyChan
    /\ UNCHANGED <<c2s, faults, attempt, expected_seq, received_data, eof_seq,
                   eof_seen, packets_this_round, no_data_count, packets_received,
                   sink>>
    /\ UNCHANGED <<fixedVars, serverVars>>

(***************************************************************************)
(* The datagram transport: loss and duplication (reordering is the         *)
(* receivers' free choice of the index they receive).                      *)
(***************************************************************************)
LoseS2C(dg) ==
    /\ faults < MaxFaults
    /\ dg \in Receivable(s2c)
    /\ s2c' = ChanTake(s2c, dg)
    /\ faults' = faults + 1
    /\ UNCHANGED <<c2s, fixedVars, serverVars, clientVars>>

LoseC2S(dg) ==
    /\ faults < MaxFaults
    /\ dg \in Receivable(c2s)
    /\ c2s' = ChanTake(c2s, dg)
    /\ faults' = faults + 1
    /\ UNCHANGED <<s2c, fixedVars, serverVars, clientVars>>

DupS2C(dg) ==
    /\ faults < MaxFaults
    /\ dg \in Receivable(s2c)
    /\ s2c' = ChanPut(s2c, dg)
    /\ faults' = faults + 1
    /\ UNCHANGED <<c2s, fixedVars, serverVars, clientVars>>

DupC2S(dg) ==
    /\ faults < MaxFaults
    /\ dg \in Receivable(c2s)
    /\ c2s' = ChanPut(c2s, dg)
    /\ faults' = faults + 1
    /\ UNCHANGED <<s2c, fixedVars, serverVars, clientVars>>

(***************************************************************************)
(* Initial states and the specification.                                   *)
(***************************************************************************)
\* the file sizes explored: whole segments, and a 3-byte last segment
FileSizes == {0} \cup {k * DATA_SIZE : k \in 1..MaxChunks}
                 \cup {(k - 1) * DATA_SIZE + 3 : k \in 1..MaxChunks}
Windows == {k * DATA_SIZE : k \in 1..MaxWin}

\* no function is being applied on its own
NoCall == [f |-> "none"]

\* the endpoints after __init__
EndpointsInit ==
    /\ call = NoCall /\ ret = NoCall
    /\ s2c = EmptyChan /\ c2s = EmptyChan /\ faults = 0
    /\ spc = "wait"
    /\ send_base = 0 /\ next_seq_num = 0
    /\ packets = NoPackets
    /\ current_time = 0
    /\ dup_ack_count = IF variant = "p1" THEN 0 ELSE NoPackets
    /\ acks_processed = 0
    /\ estimated_rtt = IF variant = "p1" THEN None ELSE P2_INITIAL_RTO
    /\ dev_rtt = IF variant = "p1" THEN 0 ELSE P2_INITIAL_RTO \div 2
    /\ rto = IF variant = "p1" THEN P1_INITIAL_RTO ELSE P2_INITIAL_RTO
    /\ cwnd = Cwnd(1, 0)
    /\ ssthresh = INITIAL_SSTHRESH
    /\ in_slow_start = TRUE
    /\ total_packets_sent = 0 /\ retransmissions = 0 /\ fast_retransmits = 0
    /\ eof_sent = 0
    /\ cpc = "init" /\ attempt = 0
    /\ expected_seq = 0
    /\ received_data = NoPackets
    /\ eof_seq = None /\ eof_seen = FALSE
    /\ packets_this_round = 0 /\ no_data_count = 0 /\ packets_received = 0
    /\ sink = <<>>

Init ==
    /\ variant \in {"p1", "p2"}
    /\ file_size \in FileSizes
    /\ eof_tail \in (IF file_size % DATA_SIZE = 3 THEN BOOLEAN ELSE {FALSE})
    /\ sws \in (IF variant = "p1" THEN Windows ELSE {0})
    /\ ordered = FALSE
    /\ events = 0
    /\ EndpointsInit

Next ==
    \/ C_Connect
    \/ C_Retry
    \/ \E dg \in Receivable(c2s) : P1S_Accept(dg)
    \/ \E dg \in Receivable(c2s) : P1S_RecvAck(dg)
    \/ \E expired \in BOOLEAN : P1S_EndAcks(expired)
    \/ P1S_SendEOF
    \/ \E dg \in Receivable(s2c) : P1C_RecvFirst(dg)
    \/ \E dg \in Receivable(s2c) : P1C_Recv(dg)
    \/ P1C_EndRound
    \/ P1C_IdleAck
    \/ P1C_Stall
    \/ \E dg \in Receivable(c2s) : P2S_Accept(dg)
    \/ \E dg \in Receivable(c2s) : P2S_RecvAck(dg)
    \/ \E th \in P2Thresholds(packets) : P2S_EndAcks(th)
    \/ P2S_SendEOF
    \/ \E dg \in Receivable(s2c) : P2C_Recv(dg)
    \/ P2C_Timeout
    \/ \E dg \in Receivable(s2c) : LoseS2C(dg)
    \/ \E dg \in Receivable(c2s) : LoseC2S(dg)
    \/ \E dg \in Receivable(s2c) : DupS2C(dg)
    \/ \E dg \in Receivable(c2s) : DupC2S(dg)

Spec == Init /\ [][Next]_vars

(***************************************************************************)
(* The congestion controller and the RTO estimator on their own: the       *)
(* methods of the sender applied in any order to a fresh sender.           *)
(***************************************************************************)
\* RTT samples in microseconds, from far below MIN_RTO to close to MAX_RTO
CtlSamples == {1000, 60000, 700000, 4000000}
\* a sender after __init__, no session
CtlInit ==
    /\ file_size = 0 /\ eof_tail = FALSE /\ sws = 0 /\ ordered = FALSE
    /\ events = 0
    /\ EndpointsInit
ctlRest == <<variant, file_size, eof_tail, sws, ordered, call, ret, netVars,
             clientVars,
             spc, send_base, next_seq_num, packets, current_time, dup_ack_count,
             acks_processed, total_packets_sent, retransmissions,
             fast_retransmits, eof_sent>>

\* self.on_new_ack(acked_packets)
Ctl_NewAck(acked_packets) ==
    /\ variant = "p2" /\ events < MaxEvents
    /\ LET g == on_new_ack(cwnd, ssthresh, in_slow_start, acked_packets)
       IN  /\ cwnd' = g.cwnd
           /\ ssthresh' = g.ssthresh
           /\ in_slow_start' = g.in_slow_start
    /\ events' = events + 1
    /\ UNCHANGED <<rto, estimated_rtt, dev_rtt, ctlRest>>

\* self.on_timeout()
Ctl_Timeout ==
    /\ variant = "p2" /\ events < MaxEvents
    /\ LET t == on_timeout(cwnd, rto)
       IN  /\ cwnd' = t.cwnd
           /\ ssthresh' = t.ssthresh
           /\ in_slow_start' = t.in_slow_start
           /\ rto' = t.rto
    /\ events' = events + 1
    /\ UNCHANGED <<estimated_rtt, dev_rtt, ctlRest>>

\* self.on_fast_retransmit()
Ctl_FastRetransmit ==
    /\ variant = "p2" /\ events < MaxEvents
    /\ LET f == on_fast_retransmit(cwnd)
       IN  /\ cwnd' = f.cwnd
           /\ ssthresh' = f.ssthresh
           /\ in_slow_start' = f.in_slow_start
    /\ events' = events + 1
    /\ UNCHANGED <<rto, estimated_rtt, dev_rtt, ctlRest>>

\* self.update_rto(sample_rtt), of the variant's server
Ctl_UpdateRto(sample_rtt) ==
    /\ events < MaxSamples
    /\ LET u == IF variant = "p1"
                THEN p1_update_rto(estimated_rtt, dev_rtt, sample_rtt)
                ELSE p2_update_rto(estimated_rtt, dev_rtt, sample_rtt)
       IN  /\ estimated_rtt' = u.estimated_rtt
           /\ dev_rtt' = u.dev_rtt
           /\ rto' = u.rto
    /\ events' = events + 1
    /\ UNCHANGED <<cwnd, ssthresh, in_slow_start, ctlRest>>

\* the part2 back-off between samples
Ctl_Backoff == events < MaxSamples /\ Ctl_Timeout

InitCwnd == variant = "p2" /\ CtlInit
NextCwnd ==
    \/ \E acked_packets \in 1..MaxAcked : Ctl_NewAck(acked_packets)
    \/ Ctl_Timeout
    \/ Ctl_FastRetransmit
SpecCwnd == InitCwnd /\ [][NextCwnd]_vars

InitRto == variant \in {"p1", "p2"} /\ CtlInit
NextRto ==
    \/ \E sample_rtt \in CtlSamples : Ctl_UpdateRto(sample_rtt)
    \/ Ctl_Backoff
SpecRto == InitRto /\ [][NextRto]_vars

(***************************************************************************)
(* Scenario A: a 5000-byte file over a transport that delivers every       *)
(* datagram once and in order.  No retransmission timer runs out (rto is   *)
(* at least 100 ms) and no endpoint gives up; the only timers that fire    *)
(* are the 3 ms / 10 ms socket timeouts that end a round.                  *)
(***************************************************************************)
\* nothing is in flight and the next pass of the part1 sender sends nothing
A_Quiescent ==
    /\ ChanEmpty(s2c) /\ ChanEmpty(c2s)
    /\ spc = "acks"
    /\ p1_loop_top(send_base, next_seq_num, packets, current_time).out = <<>>

\* the part1 client's round when the session is quiescent: it receives
\* nothing, and sends its ack
A_P1C_IdleAck == A_Quiescent /\ faults' = faults /\ p1_idle_round

InitA ==
    /\ variant \in {"p1", "p2"}
    /\ file_size = 5000
    /\ eof_tail = FALSE
    /\ sws \in (IF variant = "p1" THEN Windows \cup {TotalPackets(5000) * DATA_SIZE}
                ELSE {0})
    /\ ordered = TRUE
    /\ events = 0
    /\ EndpointsInit

NextA ==
    \/ C_Connect
    \/ \E dg \in Receivable(c2s) : P1S_Accept(dg)
    \/ \E dg \in Receivable(c2s) : P1S_RecvAck(dg)
    \/ P1S_EndAcks(FALSE)
    \/ P1S_SendEOF
    \/ \E dg \in Receivable(s2c) : P1C_RecvFirst(dg)
    \/ \E dg \in Receivable(s2c) : P1C_Recv(dg)
    \/ P1C_EndRound
    \/ A_P1C_IdleAck
    \/ \E dg \in Receivable(c2s) : P2S_Accept(dg)
    \/ \E dg \in Receivable(c2s) : P2S_RecvAck(dg)
    \/ P2S_EndAcks(0)
    \/ P2S_SendEOF
    \/ \E dg \in Receivable(s2c) : P2C_Recv(dg)
SpecA == InitA /\ [][NextA]_vars

(***************************************************************************)
(* Scenario B: the 5000-byte file over the same transport, which drops the *)
(* first transmission of the 2nd data segment and nothing else.  Timers    *)
(* fire only when nothing is in flight and no endpoint has anything to     *)
(* send: the part1 client's idle round, the part2 sender's retransmission  *)
(* timer.                                                                  *)
(***************************************************************************)
\* the 2nd data segment as the sender puts it on the wire
B_Segment2 == IF variant = "p1" THEN create_packet(DATA_SIZE, p1_chunk(DATA_SIZE))
              ELSE create_packet(1, p2_chunk(1))
\* the end of segment 1 in the sender's sequence space
B_Boundary == IF variant = "p1" THEN DATA_SIZE ELSE 1
\* the transport hands the datagram to the receiver: every datagram but the
\* first copy of the 2nd data segment
B_Delivered(dg) == ~(faults = 0 /\ dg = B_Segment2)
\* the one loss
B_Lose == faults = 0 /\ LoseS2C(B_Segment2)

\* nothing is in flight and the next pass of the part2 sender sends nothing
B_Quiescent ==
    /\ variant = "p2" /\ spc = "acks"
    /\ ChanEmpty(s2c) /\ ChanEmpty(c2s)
    /\ p2_loop_top(send_base, next_seq_num, packets, cwnd, ssthresh, in_slow_start,
                   rto, current_time, 0).out = <<>>
\* the part2 sender's periodic timeout check finds an expired segment
B_P2S_Timeout ==
    /\ B_Quiescent
    /\ \E th \in P2Thresholds(packets) \ {0} : P2S_EndAcks(th)

InitB ==
    /\ variant \in {"p1", "p2"}
    /\ file_size = 5000
    /\ eof_tail = FALSE
    /\ sws = (IF variant = "p1" THEN TotalPackets(5000) * DATA_SIZE ELSE 0)
    /\ ordered = TRUE
    /\ events = 0
    /\ EndpointsInit

NextB ==
    \/ C_Connect
    \/ B_Lose
    \/ \E dg \in Receivable(c2s) : P1S_Accept(dg)
    \/ \E dg \in Receivable(c2s) : P1S_RecvAck(dg)
    \/ P1S_EndAcks(FALSE)
    \/ P1S_SendEOF
    \/ \E dg \in Receivable(s2c) : B_Delivered(dg) /\ P1C_RecvFirst(dg)
    \/ \E dg \in Receivable(s2c) : B_Delivered(dg) /\ P1C_Recv(dg)
    \/ P1C_EndRound
    \/ A_P1C_IdleAck
    \/ \E dg \in Receivable(c2s) : P2S_Accept(dg)
    \/ \E dg \in Receivable(c2s) : P2S_RecvAck(dg)
    \/ P2S_EndAcks(0)
    \/ B_P2S_Timeout
    \/ P2S_SendEOF
    \/ \E dg \in Receivable(s2c) : B_Delivered(dg) /\ P2C_Recv(dg)
SpecB == InitB /\ [][NextB]_vars

(***************************************************************************)
(* Scenario C: the transport drops every connection request, so the server *)
(* stays in wait_for_client_request and the client runs through its        *)
(* attempts.                                                               *)
(***************************************************************************)
\* a request is dropped
C_LoseRequest(dg) ==
    /\ dg \in Receivable(c2s)
    /\ c2s' = ChanTake(c2s, dg)
    /\ UNCHANGED <<s2c, faults, fixedVars, serverVars, clientVars>>
\* the attempt's timeout runs out: the next attempt
C_RetryC == faults' = faults /\ c_retry

NextC ==
    \/ C_Connect
    \/ C_RetryC
    \/ C_GiveUp
    \/ \E dg \in Receivable(c2s) : C_LoseRequest(dg)
SpecC == Init /\ [][NextC]_vars

(***************************************************************************)
(* Malformed datagrams: the session of Scenario A, where in addition any   *)
(* host may send the client's socket a datagram shorter than the header.   *)
(***************************************************************************)
\* datagrams of 0, 4 and 19 bytes
ShortDatagrams == {Datagram(Zeros(n), EmptyBytes) : n \in {0, 4, HEADER_SIZE - 1}}
\* a short datagram is put on the way to the client
M_Inject(dg) ==
    /\ dg \in ShortDatagrams
    /\ cpc \in {"await", "recv"}
    /\ faults < MaxFaults
    /\ faults' = faults + 1
    /\ s2c' = ChanPut(s2c, dg)
    /\ UNCHANGED <<c2s, fixedVars, serverVars, clientVars>>

NextM ==
    \/ NextA
    \/ \E dg \in ShortDatagrams : M_Inject(dg)
SpecM == InitA /\ [][NextM]_vars

(***************************************************************************)
(* A silent peer.  After the connection request nothing the client sends   *)
(* reaches the sender; the receiver gets what the sender transmits on its  *)
(* own (the first window, the retransmissions of the timer) and then       *)
(* nothing.  Each endpoint is a process that keeps running.                *)
(***************************************************************************)
\* a datagram of the client is lost once the sender has its request
Q_LoseAck(dg) ==
    /\ spc # "wait"
    /\ dg \in Receivable(c2s)
    /\ c2s' = ChanTake(c2s, dg)
    /\ UNCHANGED <<s2c, faults, fixedVars, serverVars, clientVars>>

Q_Server ==
    \/ \E dg \in Receivable(c2s) : P1S_Accept(dg)
    \/ \E expired \in BOOLEAN : P1S_EndAcks(expired)
    \/ P1S_SendEOF
    \/ \E dg \in Receivable(c2s) : P2S_Accept(dg)
    \/ \E th \in P2Thresholds(packets) : P2S_EndAcks(th)
    \/ P2S_SendEOF
Q_Client ==
    \/ C_Connect
    \/ \E dg \in Receivable(s2c) : P1C_RecvFirst(dg)
    \/ \E dg \in Receivable(s2c) : P1C_Recv(dg)
    \/ P1C_EndRound
    \/ P1C_Stall
    \/ \E dg \in Receivable(s2c) : P2C_Recv(dg)
    \/ P2C_Timeout
Q_Transport == \E dg \in Receivable(c2s) : Q_LoseAck(dg)

NextQ == Q_Server \/ Q_Client \/ Q_Transport
SpecQ == /\ Init /\ [][NextQ]_vars
         /\ WF_vars(Q_Server) /\ WF_vars(Q_Client) /\ WF_vars(Q_Transport)

(***************************************************************************)
(* Progress under loss.  The transport loses datagrams in either           *)
(* direction, but not for ever: after MaxFaults losses every datagram is   *)
(* delivered.  Timers (retransmission, connection retry, idle round) fire  *)
(* when nothing is in flight.  The receiver keeps running: it does not     *)
(* give up, time out or stall.  Once the receiver has closed its socket    *)
(* the sender's retransmissions reach nobody and change nothing but its    *)
(* counters: they are left out.                                            *)
(***************************************************************************)
\* nothing is in flight, the receiver's round has ended and the sender's
\* next pass sends nothing (the socket timeouts that end a round or an ack
\* loop, 3 ms and 10 ms, are far shorter than any of the timers)
L_Quiet ==
    /\ ChanEmpty(s2c) /\ ChanEmpty(c2s)
    /\ ~ClientClosed(cpc)
    /\ packets_this_round = 0
    /\ spc = "acks" =>
          IF variant = "p1"
          THEN p1_loop_top(send_base, next_seq_num, packets, current_time).out = <<>>
          ELSE p2_loop_top(send_base, next_seq_num, packets, cwnd, ssthresh,
                           in_slow_start, rto, current_time, 0).out = <<>>

\* the retransmission timers
L_P1S_Expire == L_Quiet /\ faults' = faults /\ p1_end_acks(TRUE)
L_P2S_Expire ==
    /\ L_Quiet /\ faults' = faults
    /\ \E th \in P2Thresholds(packets) \ {0} : p2_end_acks(th)
\* the connection attempt's timeout
L_Retry == L_Quiet /\ C_RetryC
\* an idle round of the part1 receiver
L_P1C_IdleAck ==
    /\ L_Quiet /\ no_data_count < MaxIdle
    /\ faults' = faults
    /\ p1_idle_round

L_Server ==
    \/ \E dg \in Receivable(c2s) : P1S_Accept(dg)
    \/ P1S_EndAcks(FALSE)
    \/ L_P1S_Expire
    \/ P1S_SendEOF
    \/ \E dg \in Receivable(c2s) : P2S_Accept(dg)
    \/ P2S_EndAcks(0)
    \/ L_P2S_Expire
    \/ P2S_SendEOF
L_Client ==
    \/ C_Connect
    \/ L_Retry
    \/ P1C_EndRound
    \/ L_P1C_IdleAck
L_ToClient ==
    \/ \E dg \in Receivable(s2c) : P1C_RecvFirst(dg)
    \/ \E dg \in Receivable(s2c) : P1C_Recv(dg)
    \/ \E dg \in Receivable(s2c) : P2C_Recv(dg)
L_ToServer ==
    \/ \E dg \in Receivable(c2s) : P1S_RecvAck(dg)
    \/ \E dg \in Receivable(c2s) : P2S_RecvAck(dg)
L_Loss ==
    \/ \E dg \in Receivable(s2c) : LoseS2C(dg)
    \/ \E dg \in Receivable(c2s) : LoseC2S(dg)

InitL ==
    /\ variant \in {"p1", "p2"}
    /\ file_size \in FileSizes
    /\ eof_tail \in (IF file_size % DATA_SIZE = 3 THEN BOOLEAN ELSE {FALSE})
    /\ sws \in (IF variant = "p1" THEN Windows ELSE {0})
    /\ ordered = TRUE
    /\ events = 0
    /\ EndpointsInit
NextL == L_Server \/ L_Client \/ L_ToClient \/ L_ToServer \/ L_Loss
SpecL == /\ InitL /\ [][NextL]_vars
         /\ WF_vars(L_Server) /\ WF_vars(L_Client)
         /\ WF_vars(L_ToClient) /\ WF_vars(L_ToServer)

(***************************************************************************)
(* Duplicate acknowledgments: a file of three segments over the transport  *)
(* of Scenario A, which in addition delivers up to MaxDupAcks extra copies *)
(* of acknowledgments.  No timer runs out.                                 *)
(***************************************************************************)
\* the transport queues one more copy of the acknowledgment it delivers next
F_DupAck(dg) ==
    /\ faults < MaxDupAcks
    /\ spc = "acks"
    /\ dg \in Receivable(c2s) /\ dg # Request
    /\ c2s' = ChanPut(c2s, dg)
    /\ faults' = faults + 1
    /\ UNCHANGED <<s2c, fixedVars, serverVars, clientVars>>

NextF == NextA \/ \E dg \in Receivable(c2s) : F_DupAck(dg)
InitF ==
    /\ variant \in {"p1", "p2"}
    /\ file_size = 3 * DATA_SIZE
    /\ eof_tail = FALSE
    /\ sws \in (IF variant = "p1" THEN Windows ELSE {0})
    /\ ordered = TRUE
    /\ events = 0
    /\ EndpointsInit
SpecF == InitF /\ [][NextF]_vars

(***************************************************************************)
(* The codecs and the SACK generator on their own: each function applied   *)
(* to arguments drawn from small sets, the arguments kept in call and the  *)
(* result in ret.  The functions are pure: one application is made from   *)
(* the state after construction.                                           *)
(***************************************************************************)
\* sequence numbers: around every byte boundary of the 32-bit field, up to
\* the largest integer TLC represents (2^31 - 1: the top bit stays clear)
CodecSeqs == {0, 1, 255, 256, 1180, 65535, 65536, 16777215, 16777216,
              1398030674, 2147483646, 2147483647}
\* payloads: b"", one byte, a full segment, a 3-byte tail, the marker
CodecPayloads == {EmptyBytes, FileSlice(0, 1), FileSlice(0, DATA_SIZE),
                  FileSlice(DATA_SIZE, DATA_SIZE + 3), EOF_MARKER}
\* datagrams of fewer than HEADER_SIZE bytes, header and payload bytes alike
CodecShort == ShortDatagrams \cup
              {Datagram(PackU32(7), EmptyBytes),
               Datagram(PackU32(7) \o Zeros(12), EOF_MARKER),
               Datagram(PackU32(7) \o Zeros(15), EmptyBytes)}
\* SACK blocks: well-formed ones and every kind that parse_ack drops
CodecBlocks == {<<DATA_SIZE, 2 * DATA_SIZE>>, <<3 * DATA_SIZE, 2147483647>>,
                <<0, DATA_SIZE>>, <<DATA_SIZE, 0>>, <<0, 0>>,
                <<2 * DATA_SIZE, DATA_SIZE>>, <<DATA_SIZE, DATA_SIZE>>}
CodecBlockLists == {<<>>} \cup {<<a>> : a \in CodecBlocks}
                   \cup {<<a, b>> : a, b \in CodecBlocks}
                   \cup {<<a, b, c>> : a, b \in CodecBlocks,
                                       c \in {<<DATA_SIZE, 2 * DATA_SIZE>>, <<0, 0>>}}
\* the segment of the stream that starts at offset seq, a short one last
CodecSegment(seq, last) ==
    FileSlice(seq, IF seq = last THEN seq + 3 ELSE seq + DATA_SIZE)
\* contents of received_data: any set of segments of a MaxBuffered-segment
\* stream, the last segment whole or 3 bytes long
CodecBuffers ==
    { [seq \in K |-> CodecSegment(seq, last)] :
        K \in SUBSET {j * DATA_SIZE : j \in 0..(MaxBuffered - 1)},
        last \in {None, (MaxBuffered - 1) * DATA_SIZE} }

\* parse_packet of the variant's client
parse_packet(packet) ==
    IF variant = "p1" THEN p1_parse_packet(packet) ELSE p2_parse_packet(packet)

codecRest == <<variant, file_size, eof_tail, sws, ordered, events, netVars,
               serverVars, clientVars>>

\* parse_packet(create_packet(seq_num, data))
Codec_Packet(seq_num, data) ==
    /\ call = NoCall
    /\ call' = [f |-> "packet", seq_num |-> seq_num, data |-> data]
    /\ ret' = [packet |-> create_packet(seq_num, data),
               parsed |-> parse_packet(create_packet(seq_num, data))]
    /\ UNCHANGED codecRest

\* parse_packet of a datagram shorter than the header
Codec_Short(packet) ==
    /\ call = NoCall
    /\ call' = [f |-> "short", packet |-> packet]
    /\ ret' = [parsed |-> parse_packet(packet)]
    /\ UNCHANGED codecRest

\* parse_ack(create_ack(cum_ack, sack_blocks)), part1
Codec_Ack(cum_ack, sack_blocks) ==
    /\ variant = "p1" /\ call = NoCall
    /\ call' = [f |-> "ack", cum_ack |-> cum_ack, sack_blocks |-> sack_blocks]
    /\ ret' = [packet |-> p1_create_ack(cum_ack, sack_blocks),
               parsed |-> p1_parse_ack(p1_create_ack(cum_ack, sack_blocks))]
    /\ UNCHANGED codecRest

\* generate_sack_blocks() with received_data = rd, part1
Codec_Sack(rd) ==
    /\ variant = "p1" /\ call = NoCall
    /\ call' = [f |-> "sack", received_data |-> rd]
    /\ ret' = [sack_blocks |-> generate_sack_blocks(rd)]
    /\ UNCHANGED codecRest

InitCodec == variant \in {"p1", "p2"} /\ CtlInit
NextCodec ==
    \/ \E seq_num \in CodecSeqs, data \in CodecPayloads : Codec_Packet(seq_num, data)
    \/ \E packet \in CodecShort : Codec_Short(packet)
    \/ \E cum_ack \in CodecSeqs, sack_blocks \in CodecBlockLists :
          Codec_Ack(cum_ack, sack_blocks)
    \/ \E rd \in CodecBuffers : Codec_Sack(rd)
SpecCodec == InitCodec /\ [][NextCodec]_vars

(***************************************************************************)
(* The sink against the source byte stream.                                *)
(***************************************************************************)
\* the offset after the last byte written
SinkEnd == IF sink = <<>> THEN 0 ELSE sink[Len(sink)].hi
\* the writes are slices of the file, each starting where the one before ended
SinkIsPrefix ==
    \A j \in 1..Len(sink) :
        /\ sink[j].k = "file"
        /\ sink[j].lo = (IF j = 1 THEN 0 ELSE sink[j - 1].hi)
        /\ sink[j].hi > sink[j].lo
        /\ sink[j].hi <= file_size
SinkIsSource == SinkIsPrefix /\ SinkEnd = file_size
\* the receiver ended because it observed the end of the stream
EndedByEof == cpc = "done" /\ (eof_seq # None \/ eof_seen)
\* what receive_file hands its caller once the loop has ended, by EOF
\* (eof = TRUE) or by stall detection: part1 "return True" after either,
\* part2 runs off the end of the function (None) after either break
receive_file_result(eof) == IF variant = "p1" THEN "True" ELSE "None"
\* the total stream length in the sender's sequence space
StreamTotal == IF variant = "p1" THEN file_size ELSE total_packets

(***************************************************************************)
(* Properties.                                                             *)
(***************************************************************************)
\* C1: whenever the receiver ends a transfer because it observed the end of
\* the stream, the bytes in the sink are exactly the source byte stream
\* (both variants, every source, every loss / duplication / reordering).
C1_ReliableDelivery == EndedByEof => SinkIsSource

\* C2: in every reachable state the sink is a prefix of the source: segments
\* are written in increasing contiguous offset order, and a segment offset
\* delivered again never causes a second write.
C2_SinkPrefix == SinkIsPrefix
\* part1: more valid segments were received by receive_file than were written,
\* none is buffered and no EOF was seen: one of them was a repeated offset
C2_Witness ==
    /\ variant = "p1" /\ eof_seq = None
    /\ received_data = NoPackets
    /\ Len(sink) >= 2
    /\ packets_received > Len(sink)

\* C3: expected_seq (receiver) and send_base (sender) never decrease from one
\* state to the next, whatever acknowledgments or segments arrive.
C3_Monotone == [][expected_seq' >= expected_seq /\ send_base' >= send_base]_vars
\* both endpoints have advanced, and an acknowledgment below send_base (a
\* stale one) is on its way to the sender's ack loop
C3_Witness ==
    /\ send_base > 0 /\ expected_seq > 0
    /\ spc = "acks"
    /\ \E dg \in Receivable(c2s) : Len(dg) >= 4 /\ UnpackU32(dg) < send_base

\* C4: in every reachable sender state send_base <= next_seq_num <= total
\* stream length (file_size in part1, total_packets in part2), whatever
\* datagrams the peer puts on the channel.
C4_WindowOrder == send_base <= next_seq_num /\ next_seq_num <= StreamTotal

\* C5: every key of the in-flight map lies in [send_base, next_seq_num).
C5_InFlightRange ==
    \A s \in Keys(packets) : send_base <= s /\ s < next_seq_num
\* a cumulative ack has removed records and later segments are in flight
C5_Witness ==
    /\ send_base > 0
    /\ Keys(packets) # {}
    /\ next_seq_num > send_base

\* C6: in the congestion-controlled sender, at every loop round
\* next_seq_num - send_base <= ceil(cwnd), also in the rounds after a timeout
\* or a fast retransmit lowered cwnd.
C6_Outstanding ==
    variant = "p2" /\ spc = "acks" => next_seq_num - send_base <= CwndCeil(cwnd)
\* C6 (amended): a round admits new segments only up to the window
\* max(1, int(cwnd)) of the cwnd the round starts with: after a step that
\* sent new segments, next_seq_num - send_base is at most that window.
C6_Admission ==
    [][variant = "p2" /\ next_seq_num' > next_seq_num
         => next_seq_num' - send_base' <= Max(1, CwndInt(cwnd))]_vars
\* a window of two segments was filled after cwnd grew to 2
C6_Witness ==
    /\ variant = "p2" /\ spc = "acks"
    /\ CwndInt(cwnd) = 2
    /\ send_base = 1 /\ next_seq_num = 3

\* C7: in the congestion-controlled sender cwnd >= 1 and ssthresh >= 2 in
\* every state, after any interleaving of on_new_ack(n) (n >= 1), on_timeout
\* and on_fast_retransmit.
C7_CwndFloor ==
    /\ cwnd.w >= 1 /\ cwnd.f >= 0 /\ cwnd.f < CwndScale
    /\ ssthresh >= 2
\* congestion avoidance after a timeout at a small cwnd: ssthresh sits at
\* its floor and cwnd has grown by a fraction
C7_Witness ==
    /\ events >= 3
    /\ ssthresh = 2 /\ ~in_slow_start
    /\ cwnd.w >= 2 /\ cwnd.f > 0

\* C8: MIN_RTO <= rto <= MAX_RTO in every state of both senders: initially,
\* after every update_rto(sample) with a positive sample, and (part2) after
\* any number of timeout back-offs in a row.
C8_RtoBounds == MIN_RTO <= rto /\ rto <= MAX_RTO
\* the back-off alone has doubled rto up to MAX_RTO (no sample was taken)
C8_Witness ==
    /\ variant = "p2" /\ events >= 5
    /\ estimated_rtt = P2_INITIAL_RTO
    /\ rto = MAX_RTO

\* C9: every key of the receiver's out-of-order buffer is >= expected_seq.
C9_BufferAhead == \A s \in Keys(received_data) : s >= expected_seq

\* C10 (Scenario A): over a channel that loses, duplicates and reorders
\* nothing, a 5000-byte file is sent as exactly 5 data segments plus the EOF
\* segment, no data segment is transmitted a second time, and the receiver's
\* output equals the 5000 input bytes.
C10_ScenarioA ==
    /\ retransmissions = 0
    /\ total_packets_sent <= TotalPackets(5000)
    /\ spc = "done" => total_packets_sent = TotalPackets(5000) /\ eof_sent >= 1
    /\ cpc = "done" => SinkIsSource

\* C11 (Scenario B): when the first transmission of the 2nd of 5 data
\* segments is dropped and nothing else is lost, the sender takes the
\* fast-retransmit branch exactly once in the transfer, on the third duplicate
\* acknowledgment for the end of segment 1, and the receiver's output equals
\* the input.
C11_ScenarioB ==
    [][/\ fast_retransmits' # fast_retransmits
            => fast_retransmits = 0 /\ send_base = B_Boundary
       /\ spc' = "done" => fast_retransmits' = 1
       /\ cpc' = "done" => SinkIsSource']_vars

\* C12 (Scenario C): when every connection request is dropped the client
\* sends exactly MAX_RETRIES requests, then gives up with a failure; it never
\* enters the receive phase and no output content exists.
C12_HandshakeFailure ==
    /\ attempt <= MAX_RETRIES
    /\ cpc \in {"init", "await", "failed"}
    /\ cpc = "failed" => attempt = MAX_RETRIES
    /\ sink = <<>> /\ received_data = NoPackets
\* the client has given up after its last request was dropped too
C12_Witness ==
    /\ cpc = "failed" /\ attempt = MAX_RETRIES
    /\ ChanEmpty(c2s) /\ spc = "wait"

\* cwnd in units of 1/CwndScale
CwndScaled(c) == c.w * CwndScale + c.f
\* the controller after k on_new_ack(1) events from a fresh sender
RECURSIVE NewAckRun(_)
NewAckRun(k) ==
    IF k = 0
    THEN [cwnd |-> Cwnd(1, 0), ssthresh |-> INITIAL_SSTHRESH, in_slow_start |-> TRUE]
    ELSE LET q == NewAckRun(k - 1)
         IN  on_new_ack(q.cwnd, q.ssthresh, q.in_slow_start, 1)

\* C13: on_new_ack(n) in slow start sets cwnd to cwnd + n and leaves slow
\* start exactly when the new cwnd >= ssthresh; in congestion avoidance it
\* sets cwnd to cwnd + n / cwnd.  Once cwnd >= ssthresh an on_new_ack(1)
\* raises cwnd by at most 1 / cwnd, and ten on_new_ack(1) events from
\* cwnd = 1, ssthresh = 32 give cwnd = 11, still in slow start.
C13_CwndGrowth ==
    [][/\ \A n \in 1..MaxAcked :
            Ctl_NewAck(n) =>
               /\ ssthresh' = ssthresh
               /\ in_slow_start =>
                    /\ CwndScaled(cwnd') = CwndScaled(cwnd) + n * CwndScale
                    /\ in_slow_start' = ~(CwndScaled(cwnd') >= ssthresh * CwndScale)
               /\ ~in_slow_start =>
                    /\ CwndScaled(cwnd') = CwndScaled(cwnd)
                          + (n * CwndScale * CwndScale) \div CwndScaled(cwnd)
                    /\ ~in_slow_start'
               /\ n = 1 /\ CwndScaled(cwnd) >= ssthresh * CwndScale =>
                    (CwndScaled(cwnd') - CwndScaled(cwnd)) * CwndScaled(cwnd)
                        <= CwndScale * CwndScale
       /\ NewAckRun(10).cwnd = Cwnd(11, 0) /\ NewAckRun(10).in_slow_start]_vars
\* the state of Scenario D: ten single-segment acks on a fresh sender
C13_Witness ==
    /\ events = 10
    /\ ssthresh = INITIAL_SSTHRESH /\ in_slow_start
    /\ cwnd = Cwnd(11, 0)

\* C14: a datagram shorter than the 20-byte header that the receiver takes
\* from its socket during a transfer is dropped silently in both variants:
\* the step changes neither expected_seq, the out-of-order buffer nor the
\* sink, and sends no acknowledgment.
C14_MalformedDropped ==
    [][\A dg \in Receivable(s2c) :
          /\ DatagramLen(dg) < HEADER_SIZE
          /\ P1C_RecvFirst(dg) \/ P1C_Recv(dg) \/ P2C_Recv(dg)
          => UNCHANGED <<expected_seq, received_data, sink, c2s>>]_vars

\* C15: when a receiver's loop ends by stall detection (part1: 500 empty
\* rounds, part2: receive timeout) without EOF having been observed, the
\* outcome handed to the caller differs from that of a completed transfer.
C15_StallReported ==
    cpc = "done" /\ ~EndedByEof
        => receive_file_result(FALSE) # receive_file_result(TRUE)

\* C16: every endpoint loop terminates when its peer falls silent: the
\* sender and the receiver, in both variants, leave their main loop (and
\* close the socket) after a bounded number of empty receive iterations.
C16_LoopsTerminate == <>(spc = "done") /\ <>(cpc = "done")

\* C17: over a fair lossy channel and with a receiver that keeps running, in
\* both variants send_base eventually reaches the total stream length and the
\* sender enters teardown.
C17_Progress == <>(send_base = StreamTotal /\ spc \in {"eof", "done"})

\* C18: the receiver marks end-of-stream (part1: eof_seq set, part2: the EOF
\* branch taken) only on a segment whose seq_num equals expected_seq at that
\* moment, all bytes before it having been written.
C18_EofAtOffset ==
    [][\A dg \in Receivable(s2c) :
          /\ (P1C_RecvFirst(dg) \/ P1C_Recv(dg)) /\ eof_seq = None /\ eof_seq' # None
               => p1_parse_packet(dg).seq_num = expected_seq'
          /\ P2C_Recv(dg) /\ eof_seen'
               => p2_parse_packet(dg).seq_num = expected_seq']_vars

\* the number of EOF transmissions of the variant's sender
EofSends == IF variant = "p1" THEN P1_EOF_SENDS ELSE P2_EOF_SENDS
\* the dedicated EOF segment
EofSegment == create_packet(StreamTotal, EOF_MARKER)

\* C19: no EOF segment is transmitted before send_base has reached the total
\* stream length; once it has, the sender transmits the EOF segment a fixed
\* number of times (part1: 10, part2: 20) whatever acknowledgments are or are
\* not waiting, and is then finished.
C19_Teardown ==
    /\ eof_sent \in {0, EofSends}
    /\ eof_sent > 0 \/ EofSegment \in Receivable(s2c) => send_base >= StreamTotal
    /\ eof_sent > 0 <=> spc = "done"
    /\ spc = "eof" => send_base >= StreamTotal /\ ENABLED (P1S_SendEOF \/ P2S_SendEOF)
\* the part1 sender has finished its 10 EOF transmissions of a non-empty
\* file and the receiver has not yet taken any of them
C19_Witness ==
    /\ variant = "p1" /\ file_size > 0
    /\ spc = "done" /\ eof_sent = P1_EOF_SENDS
    /\ send_base = file_size
    /\ cpc = "recv" /\ eof_seq = None
    /\ EofSegment \in Receivable(s2c)

\* C20: every data segment on the wire carries in bytes[0:4] the byte offset
\* in the source stream of its first payload byte and at most 1180 payload
\* bytes, and the EOF segment carries the total byte length of the stream
\* (both sender variants).
C20_WireSeq ==
    \A dg \in Receivable(s2c) :
        /\ dg.data.k = "file" =>
              /\ UnpackU32(dg.head) = dg.data.lo
              /\ PayLen(dg.data) <= DATA_SIZE
        /\ dg.data.k = "marker" => UnpackU32(dg.head) = file_size

C22_AckCodec ==
    call.f = "ack" =>
       /\ Len(ret.packet) = 20
       /\ ret.parsed.cum_ack = call.cum_ack
       /\ ret.parsed.sack_blocks =
             SelectSeq(SubSeq(call.sack_blocks, 1, Min(2, Len(call.sack_blocks))),
                       LAMBDA b : b[1] > 0 /\ b[2] > 0 /\ b[2] > b[1])
C22_Witness ==
    /\ call.f = "ack" /\ call.cum_ack = 2147483647
    /\ call.sack_blocks = <<<<0, DATA_SIZE>>, <<DATA_SIZE, 2 * DATA_SIZE>>,
                            <<DATA_SIZE, 2 * DATA_SIZE>>>>
    /\ ret.parsed.sack_blocks = <<<<DATA_SIZE, 2 * DATA_SIZE>>>>

\* C23: SACK generation (part1 receiver): generate_sack_blocks returns at
\* most two blocks; each is one maximal contiguous run of buffered segments
\* (adjacent segments coalesced), and they are the runs with the lowest
\* offsets, in increasing order, neither adjacent nor overlapping.
C23_SackBlocks ==
    call.f = "sack" =>
       LET rd == call.received_data
           K == Keys(rd)
           End(k) == k + PayLen(rd[k])
           \* the segments no buffered segment ends at: where the runs start
           Starts == {k \in K : \A j \in K : End(j) # k}
           blocks == ret.sack_blocks
       IN  /\ Len(blocks) = Min(2, Cardinality(Starts))
           /\ \A i \in 1..Len(blocks) :
                 LET left == blocks[i][1]
                     right == blocks[i][2]
                 IN  /\ left = SortedSeq(Starts)[i]
                     /\ right \in {End(k) : k \in K} /\ right \notin K
                     /\ \A k \in K :
                           left < k /\ k < right => \E j \in K : End(j) = k
           /\ Len(blocks) = 2 => blocks[1][2] < blocks[2][1]
C23_Witness ==
    /\ call.f = "sack"
    /\ Keys(call.received_data) = {DATA_SIZE, 2 * DATA_SIZE, 4 * DATA_SIZE, 5 * DATA_SIZE}
    /\ ret.sack_blocks = <<<<DATA_SIZE, 3 * DATA_SIZE>>, <<4 * DATA_SIZE, 5 * DATA_SIZE + 3>>>>

\* the datagrams a step hands to sendto, client to server
SentToServer ==
    IF ordered THEN {c2s'[j] : j \in (Len(c2s) + 1)..Len(c2s')}
    ELSE BagToSet(c2s' (-) c2s)
\* a step of a receiver that has its first datagram or is in its receive loop
ReceiverStep ==
    \/ \E dg \in Receivable(s2c) : P1C_RecvFirst(dg) \/ P1C_Recv(dg) \/ P2C_Recv(dg)
    \/ P1C_EndRound \/ P1C_IdleAck \/ P1C_Stall

\* C24: every acknowledgment a receiver emits (after an in-order, an
\* out-of-order or a duplicate segment, and on EOF) carries cumulative_ack
\* equal to the receiver's expected_seq, and every processed valid segment is
\* followed by such an acknowledgment (part2: in the same pass of the loop;
\* part1: when the round ends).
C24_AckIsExpected ==
    [][/\ ReceiverStep =>
             \A ack \in SentToServer : UnpackU32(ack) = expected_seq'
       /\ \A dg \in Receivable(s2c) :
             P2C_Recv(dg) /\ p2_parse_packet(dg).seq_num >= 0 /\ ~ServerClosed(spc)
                => SentToServer # {}
       /\ P1C_EndRound /\ ~ServerClosed(spc) => SentToServer # {}]_vars

\* C25: end-to-end acknowledgment soundness: in every reachable state of a
\* session, in both variants, the sender's send_base is at most the
\* receiver's expected_seq.
C25_AckSound == send_base <= expected_seq

\* C26: a connection request that reaches the sender after the handshake (a
\* client retry or a channel duplicate) leaves the transfer state unchanged in
\* both variants: send_base, next_seq_num, the in-flight map, the
\* duplicate-ack counters, cwnd and ssthresh.
C26_RequestIgnored ==
    [][(P1S_RecvAck(Request) \/ P2S_RecvAck(Request))
          => UNCHANGED <<send_base, next_seq_num, packets, dup_ack_count,
                         cwnd, ssthresh>>]_vars

\* C27: no data segment cut from the source stream is interpreted by the
\* receiver as end-of-stream, whatever the source content (a last segment of
\* exactly the 3 bytes of the EOF marker included): receiving one neither
\* sets eof_seq (part1) nor takes the EOF branch (part2), and an in-order one
\* is written to the sink and advances expected_seq.
C27_DataIsData ==
    [][\A dg \in Receivable(s2c) :
          dg.data.k = "file" =>
             /\ (P1C_RecvFirst(dg) \/ P1C_Recv(dg)) => eof_seq' = eof_seq
             /\ P1C_Recv(dg) /\ p1_parse_packet(dg).seq_num = expected_seq
                   => expected_seq' > expected_seq /\ Len(sink') > Len(sink)
             /\ P2C_Recv(dg) => ~eof_seen'
             /\ P2C_Recv(dg) /\ p2_parse_packet(dg).seq_num = expected_seq
                   => expected_seq' > expected_seq /\ Len(sink') > Len(sink)]_vars

\* C28: fast retransmit: in both senders, when the count of duplicate
\* acknowledgments for the current send_base (send_base < total) reaches
\* exactly 3, the segment at send_base is retransmitted once with a refreshed
\* timestamp, the retransmission counter is incremented and the duplicate
\* counter for that offset is reset to 0 (so that three further duplicates
\* trigger a further fast retransmit).
C28_FastRetransmit ==
    [][\A dg \in Receivable(c2s) :
          /\ ( /\ P1S_RecvAck(dg)
               /\ p1_parse_ack(dg).cum_ack = send_base /\ send_base < file_size
               /\ dup_ack_count + 1 = 3 )
               => /\ retransmissions' = retransmissions + 1
                  /\ s2c' = ToClient(s2c, <<create_packet(send_base, p1_chunk(send_base))>>)
                  /\ send_base \in Keys(packets')
                  /\ \A k \in Keys(packets') : packets'[k].ts <= packets'[send_base].ts
                  /\ dup_ack_count' = 0
          /\ ( /\ P2S_RecvAck(dg)
               /\ p2_parse_ack(dg) = send_base /\ send_base < total_packets
               /\ Get0(dup_ack_count, send_base) + 1 = 3 )
               => /\ retransmissions' = retransmissions + 1
                  /\ s2c' = ToClient(s2c, <<create_packet(send_base, p2_chunk(send_base))>>)
                  /\ send_base \in Keys(packets')
                  /\ \A k \in Keys(packets') : packets'[k].ts <= packets'[send_base].ts
                  /\ Get0(dup_ack_count', send_base) = 0]_vars

\* the datagrams a step hands to sendto, server to client
SentToClient ==
    IF ordered THEN {s2c'[j] : j \in (Len(s2c) + 1)..Len(s2c')}
    ELSE BagToSet(s2c' (-) s2c)
\* the records in flight before a step that the step sends again
Retransmitted == {x \in Keys(packets) : \E dg \in SentToClient : UnpackU32(dg.head) = x}
\* the end of an ack loop and the next pass of the sender's main loop, with
\* its timeout scan
TimeoutScan ==
    \/ \E expired \in BOOLEAN : P1S_EndAcks(expired)
    \/ \E th \in P2Thresholds(packets) : P2S_EndAcks(th)

\* C29: timeout scan: in both senders a scan retransmits at most one record,
\* and the record it retransmits is the in-flight record with the lowest
\* offset; a record with a higher offset is never retransmitted by the scan
\* while a lower one is in flight.
C29_TimeoutScan ==
    [][TimeoutScan /\ ~ClientClosed(cpc) =>
          /\ retransmissions' <= retransmissions + 1
          /\ Cardinality(Retransmitted) = retransmissions' - retransmissions
          /\ \A x \in Retransmitted : x = SetMin(Keys(packets))]_vars

\* C30: on_timeout effect: for every cwnd and rto before the event, after
\* on_timeout() ssthresh is max(cwnd_before / 2, 2) with the half rounded
\* down to a whole number of segments, cwnd is 1, the state is slow start and
\* rto is min(2 * rto_before, MAX_RTO).
C30_OnTimeout ==
    [][Ctl_Timeout =>
          /\ ssthresh' >= 2
          /\ 2 * ssthresh' * CwndScale <= Max(CwndScaled(cwnd), 4 * CwndScale)
          /\ Max(CwndScaled(cwnd), 4 * CwndScale) < 2 * (ssthresh' + 1) * CwndScale
          /\ cwnd' = Cwnd(1, 0)
          /\ in_slow_start'
          /\ rto' = Min(2 * rto, MAX_RTO)]_vars
\* the statement without the rounding: ssthresh is exactly max(cwnd / 2, 2)
C30_OnTimeoutExact ==
    [][Ctl_Timeout =>
          /\ 2 * ssthresh' * CwndScale = Max(CwndScaled(cwnd), 4 * CwndScale)
          /\ cwnd' = Cwnd(1, 0)
          /\ in_slow_start'
          /\ rto' = Min(2 * rto, MAX_RTO)]_vars
\* timeouts have capped rto, the last one at a cwnd of 6 segments or more
C30_Witness ==
    /\ events > 0
    /\ cwnd = Cwnd(1, 0) /\ in_slow_start
    /\ ssthresh = 3 /\ rto = MAX_RTO

\* C31: on_fast_retransmit effect: for every cwnd before the event, after
\* on_fast_retransmit() ssthresh is max(cwnd_before / 2, 2) with the half
\* rounded down to a whole number of segments, cwnd is ssthresh + 3 and the
\* state is congestion avoidance.
C31_OnFastRetransmit ==
    [][Ctl_FastRetransmit =>
          /\ ssthresh' >= 2
          /\ 2 * ssthresh' * CwndScale <= Max(CwndScaled(cwnd), 4 * CwndScale)
          /\ Max(CwndScaled(cwnd), 4 * CwndScale) < 2 * (ssthresh' + 1) * CwndScale
          /\ cwnd' = Cwnd(ssthresh' + 3, 0)
          /\ ~in_slow_start']_vars
\* the statement without the rounding: ssthresh is exactly max(cwnd / 2, 2)
C31_OnFastRetransmitExact ==
    [][Ctl_FastRetransmit =>
          /\ 2 * ssthresh' * CwndScale = Max(CwndScaled(cwnd), 4 * CwndScale)
          /\ cwnd' = Cwnd(ssthresh' + 3, 0)
          /\ ~in_slow_start']_vars
\* a fast retransmit at a cwnd of 8 segments or more
C31_Witness ==
    /\ events > 0
    /\ ssthresh = 4 /\ cwnd = Cwnd(7, 0) /\ ~in_slow_start

\* C32: a loss event never enlarges the congestion window: at every step in
\* which the congestion-controlled sender retransmits a segment (on_timeout
\* or on_fast_retransmit has run), cwnd after the step is at most cwnd before.
C32_LossShrinks ==
    [][variant = "p2" /\ retransmissions' > retransmissions =>
          CwndScaled(cwnd') <= CwndScaled(cwnd)]_vars

\* C33: congestion state consistency: in every reachable state of the
\* congestion-controlled sender in_slow_start is true exactly when
\* cwnd < ssthresh, after any interleaving of on_new_ack, on_timeout and
\* on_fast_retransmit (ssthresh is a whole number, so cwnd < ssthresh exactly
\* when the whole part of cwnd is below ssthresh).
C33_StateConsistent ==
    variant = "p2" =>
        (in_slow_start <=> CwndInt(cwnd) < ssthresh)
\* slow start left by an on_new_ack that reaches an ssthresh set by a timeout
C33_Witness ==
    /\ variant = "p2" /\ events > 0
    /\ ssthresh = 3 /\ cwnd = Cwnd(3, 0) /\ ~in_slow_start

(***************************************************************************)
(* Stray segments.  The receivers take datagrams from an unconnected UDP   *)
(* socket and discard the source address (packet, _ = recvfrom(...)), so a *)
(* well-formed segment that is not the sender's can reach them: a datagram *)
(* of an earlier transfer to the same port, or one of another host.        *)
(***************************************************************************)
\* a segment at the offset of the last chunk whose payload is not that chunk
StraySegments ==
    LET j == TotalPackets(file_size) - 1
    IN  {create_packet(IF variant = "p1" THEN j * DATA_SIZE ELSE j, FileSlice(0, 1))}
\* a stray segment is put on the way to the client
G_Inject(dg) ==
    /\ dg \in StraySegments
    /\ cpc = "recv"
    /\ faults = 0
    /\ faults' = 1
    /\ s2c' = ChanPut(s2c, dg)
    /\ UNCHANGED <<c2s, fixedVars, serverVars, clientVars>>

InitG ==
    /\ variant \in {"p1", "p2"}
    /\ file_size = 3 * DATA_SIZE
    /\ eof_tail = FALSE
    /\ sws \in (IF variant = "p1" THEN Windows ELSE {0})
    /\ ordered = FALSE
    /\ events = 0
    /\ EndpointsInit
NextG ==
    \/ NextA
    \/ \E dg \in StraySegments : G_Inject(dg)
SpecG == InitG /\ [][NextG]_vars

\* a well-formed segment is taken from the socket by the receiver's loop
ReceiverTakes(dg) ==
    /\ DatagramLen(dg) >= HEADER_SIZE
    /\ P1C_Recv(dg) \/ P2C_Recv(dg)

\* C34: receiver frame conditions: in both variants a segment with
\* seq < expected_seq changes neither expected_seq, the out-of-order buffer
\* nor the sink, and a segment with seq > expected_seq whose offset is
\* already buffered leaves the buffered entry for that offset unchanged.
C34_ReceiverFrame ==
    [][\A dg \in Receivable(s2c) :
          ReceiverTakes(dg) =>
            LET seq == UnpackU32(dg.head)
            IN  /\ seq < expected_seq
                     => UNCHANGED <<expected_seq, received_data, sink>>
                /\ seq > expected_seq /\ seq \in Keys(received_data)
                     => /\ seq \in Keys(received_data')
                        /\ received_data'[seq] = received_data[seq]]_vars

\* a new cumulative ack is processed and a positive sample
\* current_time - send_time of the record at the old send_base is taken
RttSampled ==
    /\ \E dg \in Receivable(c2s) :
          \/ P1S_RecvAck(dg) /\ p1_is_new_ack(p1_parse_ack(dg).cum_ack, send_base)
          \/ P2S_RecvAck(dg) /\ p2_parse_ack(dg) > send_base
    /\ send_base \in Keys(packets)
    /\ packets[send_base].ts < current_time

\* C35: RTT sampling: in both sender variants the sample taken when a new
\* cumulative ack arrives is measured from the first send time of the segment
\* at the old send_base: the send_time it is computed from is that of the
\* original transmission, also after a timeout or fast retransmission.
C35_SampleFromFirstSend ==
    [][RttSampled => packets[send_base].orig]_vars

(***************************************************************************)
(* The fixed-window sender with a file longer than one burst: a window of  *)
(* one segment and a fraction, and a window that holds the whole file.     *)
(* The transport delivers every datagram once and in order, and each       *)
(* endpoint handles everything that has arrived before the socket timeout  *)
(* ends its receive loop; the retransmission timer does not run out.       *)
(***************************************************************************)
\* segments of the file
MaxBurstChunks == 62
InitW ==
    /\ variant = "p1"
    /\ file_size = (MaxBurstChunks - 1) * DATA_SIZE + 7
    /\ eof_tail = FALSE
    /\ sws \in {DATA_SIZE + 320, MaxBurstChunks * DATA_SIZE}
    /\ ordered = TRUE
    /\ events = 0
    /\ EndpointsInit
\* socket.timeout ends the sender's ack loop: nothing is left to receive
W_P1S_EndAcks == ChanEmpty(c2s) /\ P1S_EndAcks(FALSE)
\* socket.timeout ends the receiver's round: nothing is left to receive
W_P1C_EndRound == ChanEmpty(s2c) /\ P1C_EndRound
NextW ==
    \/ C_Connect
    \/ \E dg \in Receivable(c2s) : P1S_Accept(dg)
    \/ \E dg \in Receivable(c2s) : P1S_RecvAck(dg)
    \/ W_P1S_EndAcks
    \/ P1S_SendEOF
    \/ \E dg \in Receivable(s2c) : P1C_RecvFirst(dg)
    \/ \E dg \in Receivable(s2c) : P1C_Recv(dg)
    \/ W_P1C_EndRound
    \/ A_P1C_IdleAck
SpecW == InitW /\ [][NextW]_vars

\* ceil(sws / DATA_SIZE) * DATA_SIZE
WindowCeil == ((sws + DATA_SIZE - 1) \div DATA_SIZE) * DATA_SIZE
\* the offsets a step admits: the records it adds to the in-flight map
Admitted == Keys(packets') \ Keys(packets)

\* C36: fixed-window admission: the fixed-window sender transmits a new
\* segment only where unsent data remains and next_seq_num - send_base < sws
\* holds for the offset it admits, a loop iteration admits at most 60 new
\* segments, and in every reachable state next_seq_num - send_base is at
\* most ceil(sws / 1180) * 1180 bytes.
C36_FixedWindowAdmission ==
    [][variant = "p1" =>
          /\ \A s \in Admitted : s < file_size /\ s - send_base' < sws
          /\ Cardinality(Admitted) = total_packets_sent' - total_packets_sent
          /\ total_packets_sent' - total_packets_sent <= P1_BURST_LIMIT
          /\ next_seq_num' - send_base' <= WindowCeil]_vars
\* a pass stopped by the burst limit: 60 segments admitted while the window
\* and the file have room for more
C36_Witness ==
    /\ variant = "p1" /\ spc = "acks"
    /\ send_base = 0 /\ next_seq_num = P1_BURST_LIMIT * DATA_SIZE
    /\ next_seq_num < file_size /\ next_seq_num - send_base < sws
    /\ Cardinality(Keys(packets)) = P1_BURST_LIMIT

\* a pass of the fixed-window sender's main loop that enters the loop body
P1LoopPass ==
    /\ \/ \E dg \in Receivable(c2s) : P1S_Accept(dg)
       \/ \E expired \in BOOLEAN : P1S_EndAcks(expired)
    /\ p1_loop_test(send_base')
\* the offset is an entry of seq_nums, or the end of the file
P1Boundary(s) == IsSeqNum(s) \/ s = file_size

\* C37: admission never stalls in the fixed-window sender: send_base and
\* next_seq_num are always segment boundaries of the chunk list (or equal
\* file_size) and next_seq_num is not a key of the in-flight map, so a pass
\* of the loop that starts with next_seq_num < file_size and
\* next_seq_num - send_base < sws transmits the segment at next_seq_num and
\* advances next_seq_num; the pass neither breaks out without sending nor
\* repeats without progress.
C37_AdmissionNeverStalls ==
    [][variant = "p1" =>
          /\ P1Boundary(send_base') /\ P1Boundary(next_seq_num')
          /\ next_seq_num' \notin Keys(packets')
          /\ spc' # "hung"
          /\ P1LoopPass /\ next_seq_num < file_size
                /\ next_seq_num - send_base' < sws
                => /\ next_seq_num' > next_seq_num
                   /\ next_seq_num \in Keys(packets')
                   /\ packets'[next_seq_num].orig
                   /\ total_packets_sent' > total_packets_sent]_vars
\* the window has been refilled after an ack advanced send_base
C37_Witness ==
    /\ variant = "p1" /\ spc = "acks"
    /\ sws < 2 * DATA_SIZE
    /\ send_base = 2 * DATA_SIZE /\ next_seq_num = 4 * DATA_SIZE
    /\ Keys(packets) = {2 * DATA_SIZE, 3 * DATA_SIZE}

\* C38: no spurious retransmission: over a channel that loses, duplicates
\* and reorders nothing, for every window of at least one segment, the
\* sender's retransmission counter stays 0 in both variants and the transfer
\* ends with every data segment transmitted exactly once.
C38_NoSpuriousRetransmission ==
    /\ retransmissions = 0
    /\ fast_retransmits = 0
    /\ spc = "done" => total_packets_sent = total_packets

\* the acknowledgments a receiver sends on leaving its loop in the step that
\* takes the EOF segment dg: part1 "Send final ACKs", part2 "Send final ACK"
\* (or the acks of the pass that drained the buffer)
TerminalAcks(dg) ==
    IF variant = "p1"
    THEN p1_final_acks(expected_seq', eof_seq')
    ELSE p2_on_packet(dg, expected_seq, received_data, sink).out

\* C39: terminal acknowledgments: once the receiver has observed EOF with the
\* reassembly complete it sends more than one terminal acknowledgment, a
\* bounded number of times (5 in the fixed-window client), in both variants,
\* and a receiver that has ended sends nothing more.
C39_TerminalAcks ==
    [][/\ \A dg \in Receivable(s2c) :
            /\ P1C_RecvFirst(dg) \/ P1C_Recv(dg) \/ P2C_Recv(dg)
            /\ EndedByEof' /\ SinkIsSource'
            => /\ Len(TerminalAcks(dg)) > 1
               /\ Len(TerminalAcks(dg)) <= P1_FINAL_ACKS
               /\ variant = "p1" => Len(TerminalAcks(dg)) = P1_FINAL_ACKS
       /\ ClientClosed(cpc) => UNCHANGED clientVars]_vars

(***************************************************************************)
(* Datagrams of other hosts.  wait_for_client_request records the address  *)
(* of the first datagram in client_addr, once; every sendto of send_file   *)
(* names client_addr.  The ack loops read the unconnected socket with      *)
(* "ack_packet, _ = recvfrom(...)": a datagram of any host is handed to    *)
(* the same code.                                                          *)
(***************************************************************************)
\* acknowledgments a host other than the client can send
ForeignAcks ==
    {IF variant = "p1" THEN p1_create_ack(k * DATA_SIZE, <<>>) ELSE p2_create_ack(k) :
        k \in 0..TotalPackets(file_size)}
\* recvfrom in the ack loop returns a datagram whose source is not
\* client_addr (it never was in the client's channel)
P_RecvForeign(dg) ==
    /\ dg \in ForeignAcks
    /\ faults < MaxFaults
    /\ faults' = faults + 1
    /\ c2s' = c2s
    /\ p1_ack_step(dg) \/ p2_ack_step(dg)

NextP ==
    \/ NextA
    \/ \E dg \in ForeignAcks : P_RecvForeign(dg)
SpecP == InitF /\ [][NextP]_vars

\* C40: session peer authority: the peer address is recorded once, every
\* data and EOF segment goes to it, and a datagram that arrives from any
\* other address leaves the sender's send_base, in-flight map, duplicate-ack
\* counters, cwnd, ssthresh and rto unchanged, in both variants.
C40_PeerAuthority ==
    [][\A dg \in ForeignAcks :
          P_RecvForeign(dg) =>
              UNCHANGED <<send_base, packets, dup_ack_count, cwnd, ssthresh,
                          in_slow_start, estimated_rtt, dev_rtt, rto,
                          retransmissions, s2c>>]_vars

====
